---- MODULE Spec2Model ----
(***************************************************************************)
(* Conversation state machine of the WhatsApp IPTV sales chatbot:          *)
(* ConversationService (context store, message history, extraction         *)
(* utilities) and AIService (handleIncomingMessage, activateTrial,         *)
(* activateSubscription), the chatbot admin routes and the WATI webhook of  *)
(* app.ts.                                                                 *)
(*                                                                         *)
(* The repository holds two implementations of AIService: the one that     *)
(* lets the model answer and auto-advances the state from collected data   *)
(* (build "current") and the one that dispatches on the state to templated *)
(* handlers (build "legacy").  The variable build says which one runs.     *)
(*                                                                         *)
(* A message text is modelled as the set of phrases it is made of; a       *)
(* keyword test text.includes(kw) is "some phrase of the text contains     *)
(* kw".  The result of the hosted model (intent, sentiment, entities, and  *)
(* whether the reply call succeeds) is an input chosen by the environment. *)
(***************************************************************************)
EXTENDS Integers, Sequences, FiniteSets, TLC

VARIABLES
    build,            \* which AIService implementation is deployed
    configured,       \* AIService.anthropic is set: an API key was configured
    inflight,         \* the handleIncomingMessage calls under way: where each one awaits
    now,              \* the wall clock (new Date()), in hours
    conversations,    \* ConversationService.conversations : phone -> CustomerContext
    messageHistory,   \* ConversationService.messageHistory : phone -> messages
    lastResponse,     \* the ChatbotResponse returned by the last engine call
    processedWatiMessages, \* app.ts: keys of the WATI messages seen, until their timer fires
    startupOver,      \* app.ts: Date.now() - serverStartTime >= 5000
    watiSent,         \* calls of watiService.sendMessage so far
    adminNotified     \* calls of notificationService.sendAdminNotification so far

\* the state of the WATI webhook
watiVars == <<processedWatiMessages, startupOver, watiSent, adminNotified>>

vars == <<build, configured, inflight, now, conversations, messageHistory, lastResponse, watiVars>>

----------------------------------------------------------------------------
(* Bounds of the model *)

\* the clock stops advancing at MaxTime
MaxTime == 2
\* at most MaxInbound inbound messages are handled
MaxInbound == 2
\* at most MaxFollowUps follow-ups are sent to one phone
MaxFollowUps == 1

\* inbound messages handled per phone while the clock runs
MaxStoreInbound == 1
\* replies sent over WATI
MaxWatiSent == 2
\* messages the admin sends to one phone
MaxAdminMessages == 52
\* follow-ups sent to one phone while the clock runs
MaxReminders == 5

(* Program constants *)

\* history.length > 50 => history.shift()
HistoryCap == 50
\* trialExpiresAt = now + 24 h
TrialHours == 24
\* the hours of a day (the clock of the model counts hours)
DayHours == 24
Phones == {"p1"}

Undefined == "undefined"

ConversationStates ==
    {"new", "awaiting_device", "awaiting_mac", "awaiting_content_pref",
     "trial_pending", "trial_active", "trial_expired", "awaiting_payment",
     "payment_pending", "active_subscriber", "churned", "needs_human"}

----------------------------------------------------------------------------
(* Texts *)

\* the phrases messages are made of
Phrases ==
    {"hi", "fire stick", "tivimate", "aa:bb:cc:dd:ee:ff", "device key k1",
     "worldwide", "refund", "paid", "price", "yes", "no", "paypal", "yearly"}

\* the keywords each phrase contains as a substring (lower-cased)
KeywordsIn(w) ==
    CASE w = "hi"                -> {}
      [] w = "fire stick"        -> {"fire"}
      [] w = "tivimate"          -> {"tivimate"}
      [] w = "aa:bb:cc:dd:ee:ff" -> {":"}
      [] w = "device key k1"     -> {}
      [] w = "worldwide"         -> {"worldwide", "world"}
      [] w = "refund"            -> {"refund"}
      [] w = "paid"              -> {"paid"}
      [] w = "price"             -> {"price"}
      [] w = "yes"               -> {"yes"}
      [] w = "no"                -> {"no"}
      [] w = "paypal"            -> {"paypal"}
      [] w = "yearly"            -> {"year"}
      [] OTHER                   -> {}

\* number of characters of a phrase
PhraseLen(w) ==
    CASE w = "hi"                -> 2
      [] w = "fire stick"        -> 10
      [] w = "tivimate"          -> 8
      [] w = "aa:bb:cc:dd:ee:ff" -> 17
      [] w = "device key k1"     -> 13
      [] w = "worldwide"         -> 9
      [] w = "refund"            -> 6
      [] w = "paid"              -> 4
      [] w = "price"             -> 5
      [] w = "yes"               -> 3
      [] w = "no"                -> 2
      [] w = "paypal"            -> 6
      [] w = "yearly"            -> 6
      [] OTHER                   -> 0

\* message.toLowerCase().includes(kw)
Includes(text, kw) == \E w \in text : kw \in KeywordsIn(w)

IncludesAny(text, kws) == \E kw \in kws : Includes(text, kw)

RECURSIVE SumLen(_)
SumLen(ws) ==
    IF ws = {} THEN 0
    ELSE LET w == CHOOSE x \in ws : TRUE IN PhraseLen(w) + 1 + SumLen(ws \ {w})

\* message.length: the phrases joined by single spaces
TextLength(text) == IF text = {} THEN 0 ELSE SumLen(text) - 1

\* match[0].toUpperCase()
ToUpperCase(s) ==
    CASE s = "aa:bb:cc:dd:ee:ff" -> "AA:BB:CC:DD:EE:FF"
      [] OTHER -> s

\* ConversationService.extractMacAddress: first match of the two patterns, upper-cased
extractMacAddress(text) ==
    IF "aa:bb:cc:dd:ee:ff" \in text THEN ToUpperCase("aa:bb:cc:dd:ee:ff") ELSE Undefined

\* the device-key pattern /device\s*key[:\s]*([A-Za-z0-9]+)/i of updateContextFromIntent
extractDeviceKey(text) ==
    IF "device key k1" \in text THEN "k1" ELSE Undefined

\* ConversationService.extractDeviceType: first matching keyword group wins
extractDeviceType(text) ==
    IF IncludesAny(text, {"fire", "firestick", "amazon"}) THEN "firestick"
    ELSE IF IncludesAny(text, {"android phone", "phone", "mobile", "tablet"}) THEN "android_phone"
    ELSE IF IncludesAny(text, {"smart tv", "samsung", "lg", "sony", "philips"}) THEN "smart_tv"
    ELSE IF IncludesAny(text, {"android box", "box", "xiaomi"}) THEN "android_box"
    ELSE IF IncludesAny(text, {"tivimate", "tivi mate"}) THEN "tivimate"
    ELSE Undefined

\* ConversationService.extractContentPreference
extractContentPreference(text) ==
    IF IncludesAny(text, {"english", "uk", "irish", "ireland"}) THEN "english"
    ELSE IF IncludesAny(text, {"europe", "european"}) THEN "europe"
    ELSE IF IncludesAny(text, {"worldwide", "world", "everything", "all"}) THEN "worldwide"
    ELSE Undefined

\* ConversationService.isPaymentConfirmation
isPaymentConfirmation(text) ==
    IncludesAny(text, {"paid", "sent", "payment", "transferred", "receipt", "done",
                       "money sent", "just paid"})

EscalationKeywords ==
    {"speak to someone", "real person", "human", "manager", "supervisor", "complaint",
     "refund", "scam", "fraud", "not working for days", "still not fixed"}

----------------------------------------------------------------------------
(* Context store.  A CustomerContext is a function from the names of the     *)
(* properties the object owns to their values: an optional field that was    *)
(* never assigned is not in the domain.                                      *)

Has(context, f) == f \in DOMAIN context

\* the object literal of getOrCreateContext
NewContext(p, t) ==
    [phone |-> p, state |-> "new", followUpsSent |-> 0, needsHuman |-> FALSE,
     createdAt |-> t, updatedAt |-> t]

hasContext(conv, p) == p \in DOMAIN conv

\* a new context put into a fresh map
getOrCreateContext_FreshStore(conv, p, t) ==
    IF hasContext(conv, p) THEN conv
    ELSE [q \in {p} |-> NewContext(p, t)]

\* the store after getOrCreateContext(p) at time t
getOrCreateContext(conv, p, t) ==
    IF hasContext(conv, p) THEN conv
    ELSE [q \in DOMAIN conv \cup {p} |-> IF q = p THEN NewContext(p, t) ELSE conv[q]]

\* Object.assign(target, source)
ObjectAssign(target, source) ==
    [f \in DOMAIN target \cup DOMAIN source |->
        IF f \in DOMAIN source THEN source[f] ELSE target[f]]

\* previousState recorded on every call, whatever the updates hold
TrackStateChange_Always(context, updates) ==
    ObjectAssign(context, [previousState |-> context.state])

\* the "track state changes" step of updateContext
TrackStateChange(context, updates) ==
    IF Has(updates, "state") /\ updates.state # context.state
    THEN ObjectAssign(context, [previousState |-> context.state])
    ELSE context

\* the timestamp assigned before the updates instead of after them
MergeUpdates_StampFirst(context, updates, t) ==
    ObjectAssign(ObjectAssign(context, [updatedAt |-> t]), updates)

\* Object.assign(context, updates, { updatedAt: new Date() })
MergeUpdates(context, updates, t) ==
    ObjectAssign(ObjectAssign(context, updates), [updatedAt |-> t])

\* updateContext(phone, updates) at time t: the store afterwards
updateContext(conv, p, updates, t) ==
    LET c1 == getOrCreateContext(conv, p, t)
    IN [c1 EXCEPT ![p] = MergeUpdates(TrackStateChange(c1[p], updates), updates, t)]

\* the oldest entry dropped as soon as the cap is reached
addMessage_TrimsAtCap(hist, p, m) ==
    LET old   == IF p \in DOMAIN hist THEN hist[p] ELSE <<>>
        added == Append(old, m)
        kept  == IF Len(added) >= HistoryCap THEN Tail(added) ELSE added
    IN [q \in DOMAIN hist \cup {p} |-> IF q = p THEN kept ELSE hist[q]]

\* addMessage: push, then drop the oldest entry when more than 50 are held
addMessage(hist, p, m) ==
    LET old   == IF p \in DOMAIN hist THEN hist[p] ELSE <<>>
        added == Append(old, m)
        kept  == IF Len(added) > HistoryCap THEN Tail(added) ELSE added
    IN [q \in DOMAIN hist \cup {p} |-> IF q = p THEN kept ELSE hist[q]]

----------------------------------------------------------------------------
(* Intent results of the hosted model *)

\* an entity of the IntentResult; a field the model left out reads undefined
Entity(intent, f) ==
    IF f \in DOMAIN intent.entities THEN intent.entities[f] ELSE Undefined

\* isValid of updateContextFromIntent: a string other than null / none / N/A / ""
isValid(val) == val \notin {Undefined, "null", "none", "N/A", ""}

\* a JavaScript truthy test of an entity (null modelled as the value "null")
Truthy(val) == val \notin {Undefined, "null", ""}

\* the safe default detectIntent returns when the model call fails
DefaultIntent ==
    [intent |-> "other", sentiment |-> "neutral", entities |-> [e \in {} |-> Undefined]]

----------------------------------------------------------------------------
(* ConversationService.shouldEscalateToHuman *)

\* the ghoster exception tested before the keywords instead of after them
shouldEscalateToHuman_GhosterFirst(context, text, intentLabel) ==
    IF intentLabel = "human_request" THEN TRUE
    ELSE IF Has(context, "sentiment") /\ context.sentiment = "frustrated" THEN TRUE
    ELSE IF context.followUpsSent >= 3 /\ context.state = "trial_expired" THEN FALSE
    ELSE IncludesAny(text, EscalationKeywords)

shouldEscalateToHuman(context, text, intentLabel) ==
    IF intentLabel = "human_request" THEN TRUE
    ELSE IF Has(context, "sentiment") /\ context.sentiment = "frustrated" THEN TRUE
    ELSE IF IncludesAny(text, EscalationKeywords) THEN TRUE
    ELSE IF context.followUpsSent >= 3 /\ context.state = "trial_expired" THEN FALSE
    ELSE FALSE

----------------------------------------------------------------------------
(* AIService, build "current" *)

\* if (!context.f) { if (v) context.f = v }
FillIfMissing(context, f, v) ==
    IF ~Has(context, f) /\ v # Undefined THEN ObjectAssign(context, f :> v) ELSE context

\* if (isValid(entity) && !context.f) context.f = entity
FillFromEntity(context, f, val) ==
    IF isValid(val) /\ ~Has(context, f) THEN ObjectAssign(context, f :> val) ELSE context

\* the extractions from the raw message: each fills its field when it is empty
HeuristicFills(context, text) ==
    LET c1 == FillIfMissing(context, "macAddress", extractMacAddress(text))
        c2 == FillIfMissing(c1, "deviceKey", extractDeviceKey(text))
        c3 == FillIfMissing(c2, "contentPreference", extractContentPreference(text))
    IN FillIfMissing(c3, "device", extractDeviceType(text))

\* updateContextFromIntent of the current build: sentiment is overwritten, the
\* heuristics fill the empty fields first, the model's entities the ones still empty
updateContextFromIntent(context, intent, text) ==
    LET c0 == ObjectAssign(context, [sentiment |-> intent.sentiment])
        c4 == HeuristicFills(c0, text)
        c5 == FillFromEntity(c4, "device", Entity(intent, "device"))
        c6 == FillFromEntity(c5, "plan", Entity(intent, "plan_interest"))
        c7 == FillFromEntity(c6, "contentPreference", Entity(intent, "content_preference"))
        c8 == FillFromEntity(c7, "macAddress", Entity(intent, "mac_address"))
        c9 == FillFromEntity(c8, "deviceKey", Entity(intent, "device_key"))
    IN FillFromEntity(c9, "paymentMethod", Entity(intent, "payment_method"))

\* the guard list without trial_active
AdminOwnedStates_NoTrialActive ==
    {"trial_expired", "awaiting_payment", "payment_pending", "active_subscriber",
     "needs_human"}

\* the states updateStateFromContext leaves alone
AdminOwnedStates ==
    {"trial_active", "trial_expired", "awaiting_payment", "payment_pending",
     "active_subscriber", "needs_human"}

\* the advance computed without the guard on the externally managed states
AutoAdvancedState_Unguarded(context) ==
    IF Has(context, "device")
       /\ (Has(context, "macAddress") \/ Has(context, "deviceKey"))
       /\ Has(context, "contentPreference") THEN "trial_pending"
    ELSE IF Has(context, "device")
            /\ (Has(context, "macAddress") \/ Has(context, "deviceKey"))
         THEN "awaiting_content_pref"
    ELSE IF Has(context, "device") THEN "awaiting_mac"
    ELSE IF context.state = "new" THEN "awaiting_device"
    ELSE context.state

\* the state updateStateFromContext computes from the collected fields
AutoAdvancedState(context) ==
    IF context.state \in AdminOwnedStates THEN context.state
    ELSE IF Has(context, "device")
            /\ (Has(context, "macAddress") \/ Has(context, "deviceKey"))
            /\ Has(context, "contentPreference") THEN "trial_pending"
    ELSE IF Has(context, "device")
            /\ (Has(context, "macAddress") \/ Has(context, "deviceKey"))
         THEN "awaiting_content_pref"
    ELSE IF Has(context, "device") THEN "awaiting_mac"
    ELSE IF context.state = "new" THEN "awaiting_device"
    ELSE context.state

\* the advance written back only while no MAC or device key is stored
updateStateFromContext_StopsAtMac(context) ==
    IF Has(context, "macAddress") \/ Has(context, "deviceKey") THEN context
    ELSE ObjectAssign(context, [state |-> AutoAdvancedState(context)])

updateStateFromContext(context) ==
    ObjectAssign(context, [state |-> AutoAdvancedState(context)])

NoNotification == "none"

\* trial_request reported whenever the state is trial_pending
AdminNotificationType_EveryTurn(context, prevState, intent, text) ==
    IF context.state = "trial_pending" THEN "trial_request"
    ELSE IF intent.intent = "payment" /\ isPaymentConfirmation(text) THEN "payment_received"
    ELSE IF intent.intent = "technical_issue" THEN "technical_issue"
    ELSE NoNotification

\* checkForAdminNotification: the notification type it returns
AdminNotificationType(context, prevState, intent, text) ==
    IF context.state = "trial_pending" /\ prevState # "trial_pending" THEN "trial_request"
    ELSE IF intent.intent = "payment" /\ isPaymentConfirmation(text) THEN "payment_received"
    ELSE IF intent.intent = "technical_issue" THEN "technical_issue"
    ELSE NoNotification

\* checkForAdminNotification: the context it leaves (the payment branch writes it)
checkForAdminNotification(context, prevState, intent, text) ==
    IF AdminNotificationType(context, prevState, intent, text) = "payment_received"
    THEN ObjectAssign(context, [state |-> "payment_pending", paymentPending |-> TRUE])
    ELSE context

\* generateAIResponse: the model's text on success; on failure the apology, a copy
\* of the context with needsHuman set, and an escalation notification.
\* live = TRUE says response.context is the stored object itself.
generateAIResponse(context, aiOk) ==
    IF aiOk
    THEN [message |-> "ai_reply", live |-> TRUE, context |-> context,
          notification |-> NoNotification]
    ELSE [message |-> "ai_error_apology", live |-> FALSE,
          context |-> ObjectAssign(context, [needsHuman |-> TRUE]),
          notification |-> "escalation"]

\* processMessage of the current build: [context: the stored object afterwards,
\* response: the ChatbotResponse]
processMessageCurrent(context, text, intent, aiOk) ==
    LET prevState == context.state
        c1        == updateStateFromContext(context)
        response  == generateAIResponse(c1, aiOk)
        ntype     == AdminNotificationType(c1, prevState, intent, text)
        c2        == checkForAdminNotification(c1, prevState, intent, text)
    IN [context  |-> c2,
        response |-> IF ntype # NoNotification
                     THEN [response EXCEPT !.notification = ntype]
                     ELSE response]

----------------------------------------------------------------------------
(* AIService, build "legacy": templated handlers dispatched on the state *)

\* updateContextFromIntent of the legacy build: every truthy entity overwrites
AssignIfTruthy(context, f, val) ==
    IF Truthy(val) THEN ObjectAssign(context, f :> val) ELSE context

updateContextFromIntentLegacy(context, intent) ==
    LET c0 == ObjectAssign(context, [sentiment |-> intent.sentiment])
        c1 == AssignIfTruthy(c0, "device", Entity(intent, "device"))
        c2 == AssignIfTruthy(c1, "plan", Entity(intent, "plan_interest"))
        c3 == AssignIfTruthy(c2, "contentPreference", Entity(intent, "content_preference"))
        c4 == AssignIfTruthy(c3, "macAddress", Entity(intent, "mac_address"))
        c5 == AssignIfTruthy(c4, "deviceKey", Entity(intent, "device_key"))
    IN AssignIfTruthy(c5, "paymentMethod", Entity(intent, "payment_method"))

\* a || b
OrElse(a, b) == IF Truthy(a) THEN a ELSE b

\* the raw message stored as a string
RawText(text) == IF Cardinality(text) = 1 THEN CHOOSE w \in text : TRUE ELSE "<message>"

\* a templated reply that returns the stored object as response.context
Reply(context, msg, ntype) ==
    [context  |-> context,
     response |-> [message |-> msg, live |-> TRUE, context |-> context,
                   notification |-> ntype]]

\* a reply produced by the model
ModelReply(context, aiOk) ==
    [context |-> context, response |-> generateAIResponse(context, aiOk)]

handlePricingRequest(context) ==
    Reply(ObjectAssign(context, [state |-> "awaiting_payment"]), "pricing", NoNotification)

handleTechnicalIssue(context) ==
    Reply(context, "technical_questions", "technical_issue")

handleNewConversation(context, text) ==
    LET device == extractDeviceType(text)
    IN IF device # Undefined
       THEN Reply(ObjectAssign(context, [device |-> device, state |-> "awaiting_mac"]),
                  "setup_instructions", NoNotification)
       ELSE Reply(ObjectAssign(context, [state |-> "awaiting_device"]),
                  "greeting", NoNotification)

handleDeviceSelection(context, text, intent) ==
    LET device == OrElse(Entity(intent, "device"), extractDeviceType(text))
    IN IF Truthy(device)
       THEN Reply(ObjectAssign(context, [device |-> device, state |-> "awaiting_mac"]),
                  "setup_instructions", NoNotification)
       ELSE Reply(context, "device_question", NoNotification)

handleMacCollection(context, text, intent) ==
    LET mac == OrElse(Entity(intent, "mac_address"), extractMacAddress(text))
    IN IF IncludesAny(text, {"tivimate", "tivi mate"})
       THEN Reply(ObjectAssign(context, [device |-> "tivimate",
                                         state |-> "awaiting_content_pref"]),
                  "tivimate_content_question", NoNotification)
       ELSE IF Truthy(mac) \/ TextLength(text) > 10 \/ Includes(text, ":")
               \/ Includes(text, "<6 hex digits>")
       THEN Reply(ObjectAssign(context, [macAddress |-> OrElse(mac, RawText(text)),
                                         state |-> "awaiting_content_pref"]),
                  "content_question", NoNotification)
       ELSE Reply(context, "mac_help", NoNotification)

handleContentPreference(context, text, intent) ==
    LET pref == OrElse(Entity(intent, "content_preference"), extractContentPreference(text))
        c1   == ObjectAssign(context,
                    [contentPreference |-> IF Truthy(pref) THEN pref ELSE "english",
                     state |-> "trial_pending"])
    IN Reply(c1, "trial_setup", "trial_request")

\* the plan keyword of handlePaymentFlow
PlanKeyword(text) ==
    IF Includes(text, "lifetime") THEN "lifetime"
    ELSE IF IncludesAny(text, {"2 year", "two year"}) THEN "2years"
    ELSE IF IncludesAny(text, {"3 year", "three year"}) THEN "3years"
    ELSE IF Includes(text, "year") THEN "yearly"
    ELSE IF Includes(text, "month") THEN "monthly"
    ELSE Undefined

handlePaymentFlow(context, text) ==
    IF IncludesAny(text, {"revolut", "bank", "iban"})
    THEN Reply(ObjectAssign(context, [paymentMethod |-> "revolut"]),
               "payment_revolut", NoNotification)
    ELSE IF Includes(text, "paypal")
    THEN Reply(ObjectAssign(context, [paymentMethod |-> "paypal"]),
               "payment_paypal", NoNotification)
    ELSE LET c1 == IF PlanKeyword(text) # Undefined
                   THEN ObjectAssign(context, [plan |-> PlanKeyword(text)])
                   ELSE context
         IN IF isPaymentConfirmation(text)
            THEN Reply(ObjectAssign(c1, [state |-> "payment_pending",
                                         paymentPending |-> TRUE]),
                       "verify_payment", "payment_received")
            ELSE Reply(c1, "payment_options", NoNotification)

handleTrialActive(context, text, intent, aiOk) ==
    IF intent.intent = "pricing" \/ IncludesAny(text, {"price", "plan"})
    THEN handlePricingRequest(context)
    ELSE IF intent.intent = "payment" \/ IncludesAny(text, {"yes", "subscribe", "buy"})
    THEN handlePaymentFlow(ObjectAssign(context, [state |-> "awaiting_payment"]), text)
    ELSE ModelReply(context, aiOk)

handlePaymentPending(context) ==
    Reply(context, "payment_hold", "payment_received")

handleActiveSubscriber(context, intent, aiOk) ==
    IF intent.intent = "technical_issue" THEN handleTechnicalIssue(context)
    ELSE ModelReply(context, aiOk)

\* processMessage of the legacy build
processMessageLegacy(context, text, intent, aiOk) ==
    IF intent.intent = "pricing" THEN handlePricingRequest(context)
    ELSE IF intent.intent = "technical_issue" THEN handleTechnicalIssue(context)
    ELSE CASE context.state = "new" -> handleNewConversation(context, text)
           [] context.state = "awaiting_device" -> handleDeviceSelection(context, text, intent)
           [] context.state = "awaiting_mac" -> handleMacCollection(context, text, intent)
           [] context.state = "awaiting_content_pref" ->
                  handleContentPreference(context, text, intent)
           [] context.state = "trial_active" -> handleTrialActive(context, text, intent, aiOk)
           [] context.state \in {"trial_expired", "awaiting_payment"} ->
                  handlePaymentFlow(context, text)
           [] context.state = "payment_pending" -> handlePaymentPending(context)
           [] context.state = "active_subscriber" ->
                  handleActiveSubscriber(context, intent, aiOk)
           [] OTHER -> ModelReply(context, aiOk)

----------------------------------------------------------------------------
(* handleIncomingMessage, both builds *)

Builds == {"current", "legacy"}

\* the entry addMessage stores (the model keeps the role)
UserMessage == [role |-> "user"]
AssistantMessage == [role |-> "assistant"]

\* up to the escalation check: context created, lastMessageAt set, entities merged
ContextAfterIntent(b, conv, p, text, intent, t) ==
    LET c0 == getOrCreateContext(conv, p, t)[p]
        c1 == ObjectAssign(c0, [lastMessageAt |-> t])
    IN IF b = "current" THEN updateContextFromIntent(c1, intent, text)
       ELSE updateContextFromIntentLegacy(c1, intent)

processMessage(b, context, text, intent, aiOk) ==
    IF b = "current" THEN processMessageCurrent(context, text, intent, aiOk)
    ELSE processMessageLegacy(context, text, intent, aiOk)

\* the whole of handleIncomingMessage(p, text) at time t, the model answering
\* intent and the reply call succeeding iff aiOk:
\* [conv, hist: the stores afterwards; response: the ChatbotResponse]
handleIncomingMessage(b, conv, hist, p, text, intent, aiOk, t) ==
    LET ctx   == ContextAfterIntent(b, conv, p, text, intent, t)
        store == [q \in DOMAIN conv \cup {p} |-> IF q = p THEN ctx ELSE conv[q]]
        hist1 == addMessage(hist, p, UserMessage)
    IN IF shouldEscalateToHuman(ctx, text, intent.intent)
       THEN LET esc == ObjectAssign(ctx, [needsHuman |-> TRUE, state |-> "needs_human"])
                done == updateContext([store EXCEPT ![p] = esc], p, esc, t)
            IN [conv |-> done, hist |-> hist1,
                response |-> [message |-> "escalation_ack", notification |-> "escalation",
                              context |-> done[p]]]
       ELSE LET r    == processMessage(b, ctx, text, intent, aiOk)
                upd  == IF r.response.live THEN r.context ELSE r.response.context
                done == updateContext([store EXCEPT ![p] = r.context], p, upd, t)
            IN [conv |-> done, hist |-> addMessage(hist1, p, AssistantMessage),
                response |-> [message |-> r.response.message,
                              notification |-> r.response.notification,
                              context |-> IF r.response.live THEN done[p]
                                          ELSE r.response.context]]

----------------------------------------------------------------------------
(* Inputs *)

NoEntities == [e \in {} |-> Undefined]

Intent(label, sentiment, entities) ==
    [intent |-> label, sentiment |-> sentiment, entities |-> entities]

\* the texts customers send
Texts ==
    {{"hi"}, {"fire stick"}, {"aa:bb:cc:dd:ee:ff"}, {"worldwide"},
     {"fire stick", "aa:bb:cc:dd:ee:ff", "worldwide"},
     {"refund"}, {"paid"}, {"price"}}

\* the entity bundles the hosted model returns
EntityBundles ==
    {[device |-> "firestick"], [mac_address |-> "AA:BB:CC:DD:EE:FF"],
     [content_preference |-> "worldwide"]}

\* the inbound messages of the model: a text and what the hosted model said of it
InboundInputs ==
    { [text |-> tx, intent |-> DefaultIntent] : tx \in Texts }
    \cup { [text |-> {"hi"}, intent |-> Intent(l, "neutral", NoEntities)] :
             l \in {"pricing", "technical_issue", "payment", "human_request"} }
    \cup { [text |-> {"hi"}, intent |-> Intent("other", "frustrated", NoEntities)],
           [text |-> {"paid"}, intent |-> Intent("payment", "neutral", NoEntities)] }
    \cup { [text |-> {"hi"}, intent |-> Intent("other", "neutral", e)] :
             e \in EntityBundles }

CredentialSets == {[username |-> "u1", password |-> "pw1", url |-> "http://s1"]}

\* credentials plus the derived m3uUrl
StoredCredentials(c) ==
    [username |-> c.username, password |-> c.password, url |-> c.url,
     m3uUrl |-> <<c.url, "/get.php?username=", c.username, "&password=", c.password,
                  "&type=m3u_plus&output=ts">>]

PlanTypes == {"monthly", "yearly", "2years", "3years", "lifetime"}

\* the plans the admin activates in the model
ActivatedPlans == {"yearly"}

\* the yearly plan without its two free months
PlanExpiry_YearlyTwelve(plan, t) ==
    CASE plan = "monthly"  -> [from |-> t, months |-> 1,  years |-> 0]
      [] plan = "yearly"   -> [from |-> t, months |-> 12, years |-> 0]
      [] plan = "2years"   -> [from |-> t, months |-> 28, years |-> 0]
      [] plan = "3years"   -> [from |-> t, months |-> 36, years |-> 0]
      [] plan = "lifetime" -> [from |-> t, months |-> 0,  years |-> 6]

\* the expiry of activateSubscription: setMonth(+n) or setFullYear(+6) on now
PlanExpiry(plan, t) ==
    CASE plan = "monthly"  -> [from |-> t, months |-> 1,  years |-> 0]
      [] plan = "yearly"   -> [from |-> t, months |-> 14, years |-> 0]
      [] plan = "2years"   -> [from |-> t, months |-> 28, years |-> 0]
      [] plan = "3years"   -> [from |-> t, months |-> 36, years |-> 0]
      [] plan = "lifetime" -> [from |-> t, months |-> 0,  years |-> 6]

\* the keys of FOLLOW_UP_TEMPLATES
FollowUpTypes ==
    {"trial_18h", "trial_23h", "trial_expired", "day1_followup", "day3_followup",
     "day7_final", "ghoster_4h", "ghoster_nextday", "review_request_immediate"}

\* the follow-up types sent in the model
SentFollowUpTypes == {"day1_followup"}

\* the bodies of PUT /api/chatbot/context/:phone in the model
PutBodies ==
    {[state |-> "trial_expired", followUpsSent |-> 3, previousState |-> "trial_active"],
     [state |-> "churned", previousState |-> "active_subscriber"]}

----------------------------------------------------------------------------
(* Actions *)

NoResponse == [op |-> "none"]

ResponseOf(op, p, r) ==
    [op |-> op, phone |-> p, message |-> r.message, notification |-> r.notification,
     state |-> r.context.state, needsHuman |-> r.context.needsHuman]

RECURSIVE CountRole(_, _)
CountRole(h, role) ==
    IF h = <<>> THEN 0
    ELSE (IF Head(h).role = role THEN 1 ELSE 0) + CountRole(Tail(h), role)

\* inbound messages handled so far for p: each one logged one user entry
InboundCount(p) ==
    IF p \in DOMAIN messageHistory THEN CountRole(messageHistory[p], "user") ELSE 0

\* the calls of handleIncomingMessage that may be under way at once
Requests == {"r1", "r2"}

\* a call that has not started
IdleRequest == [pc |-> "idle"]

InitStores ==
    /\ build \in Builds
    /\ inflight = [r \in Requests |-> IdleRequest]
    /\ now = 0
    /\ conversations = [p \in {} |-> NewContext(p, 0)]
    /\ messageHistory = [p \in {} |-> <<>>]
    /\ lastResponse = NoResponse
    /\ processedWatiMessages = {}
    /\ startupOver = FALSE
    /\ watiSent = 0
    /\ adminNotified = 0

\* the service constructed with an API key
Init == InitStores /\ configured = TRUE

\* the clock advances
Tick ==
    /\ now < MaxTime
    /\ now' = now + 1
    /\ UNCHANGED <<build, configured, inflight, conversations, messageHistory, lastResponse, watiVars>>

\* the stores and the response after an engine call that came to r
EngineHandled(p, r) ==
    /\ conversations' = r.conv
    /\ messageHistory' = r.hist
    /\ lastResponse' = ResponseOf("handleIncomingMessage", p, r.response)

\* aiService.handleIncomingMessage(p, text), called by the message routes and webhooks
HandleIncomingMessage(p, in, aiOk) ==
    /\ EngineHandled(p, handleIncomingMessage(build, conversations, messageHistory, p,
                                              in.text, in.intent, aiOk, now))
    /\ UNCHANGED <<build, configured, inflight, now, watiVars>>

\* a trial that was started before keeps its first start
activateTrial_KeepsFirstStart(conv, p, credentials, t) ==
    LET c0 == getOrCreateContext(conv, p, t)
        started == IF Has(c0[p], "trialStartedAt") THEN c0[p].trialStartedAt ELSE t
        c1 == ObjectAssign(c0[p], [state |-> "trial_active",
                                   trialStartedAt |-> started,
                                   trialExpiresAt |-> started + TrialHours,
                                   credentials |-> StoredCredentials(credentials)])
    IN updateContext([c0 EXCEPT ![p] = c1], p, c1, t)

\* aiService.activateTrial(p, credentials)
activateTrial(conv, p, credentials, t) ==
    LET c0 == getOrCreateContext(conv, p, t)
        c1 == ObjectAssign(c0[p], [state |-> "trial_active",
                                   trialStartedAt |-> t,
                                   trialExpiresAt |-> t + TrialHours,
                                   credentials |-> StoredCredentials(credentials)])
    IN updateContext([c0 EXCEPT ![p] = c1], p, c1, t)

ActivateTrial(p, credentials) ==
    /\ conversations' = activateTrial(conversations, p, credentials, now)
    /\ lastResponse' =
          [op |-> "activateTrial", phone |-> p,
           message |-> IF Has(conversations'[p], "device")
                          /\ conversations'[p].device = "tivimate"
                       THEN "trial_live_tivimate" ELSE "trial_live",
           notification |-> NoNotification,
           state |-> conversations'[p].state,
           needsHuman |-> conversations'[p].needsHuman]
    /\ UNCHANGED <<build, configured, inflight, now, messageHistory, watiVars>>

\* aiService.activateSubscription(p, plan, credentials)
activateSubscription(conv, p, plan, credentials, t) ==
    LET c0 == getOrCreateContext(conv, p, t)
        c1 == ObjectAssign(c0[p], [state |-> "active_subscriber",
                                   plan |-> plan,
                                   subscribedAt |-> t,
                                   paymentPending |-> FALSE,
                                   credentials |-> StoredCredentials(credentials),
                                   expiresAt |-> PlanExpiry(plan, t)])
    IN updateContext([c0 EXCEPT ![p] = c1], p, c1, t)

ActivateSubscription(p, plan, credentials) ==
    /\ conversations' = activateSubscription(conversations, p, plan, credentials, now)
    /\ lastResponse' =
          [op |-> "activateSubscription", phone |-> p, message |-> "welcome",
           notification |-> NoNotification,
           state |-> conversations'[p].state,
           needsHuman |-> conversations'[p].needsHuman]
    /\ UNCHANGED <<build, configured, inflight, now, messageHistory, watiVars>>

\* POST /api/chatbot/follow-ups/send { phone, type }: the context is read (and
\* created), the message is sent, then the counter is bumped and the message logged;
\* a failed send leaves the counter and the history alone
SendFollowUp(p, type, sendOk) ==
    /\ type \in FollowUpTypes
    /\ LET c0 == getOrCreateContext(conversations, p, now)
       IN IF sendOk
          THEN /\ conversations' =
                    updateContext(c0, p, [followUpsSent |-> c0[p].followUpsSent + 1,
                                          lastFollowUpType |-> type], now)
               /\ messageHistory' = addMessage(messageHistory, p, AssistantMessage)
          ELSE /\ conversations' = c0
               /\ UNCHANGED messageHistory
    /\ UNCHANGED <<build, configured, inflight, now, lastResponse, watiVars>>

\* PUT /api/chatbot/context/:phone with body updates
PutContext(p, body) ==
    /\ conversations' = updateContext(conversations, p, body, now)
    /\ UNCHANGED <<build, configured, inflight, now, messageHistory, lastResponse, watiVars>>

\* the engine under inbound messages and the admin routes; the clock stands still
Next ==
    \/ \E p \in Phones, in \in InboundInputs, aiOk \in BOOLEAN :
          InboundCount(p) < MaxInbound /\ HandleIncomingMessage(p, in, aiOk)
    \/ \E p \in Phones, c \in CredentialSets : ActivateTrial(p, c)
    \/ \E p \in Phones, plan \in ActivatedPlans, c \in CredentialSets :
          ActivateSubscription(p, plan, c)
    \/ \E p \in Phones, body \in PutBodies : PutContext(p, body)

Spec == Init /\ [][Next]_vars

\* the same, the current AIService deployed
InitCurrent == Init /\ build = "current"

SpecCurrent == InitCurrent /\ [][Next]_vars

----------------------------------------------------------------------------
(* app.ts: POST /webhooks/wati.  Both services are configured. *)

\* allowedNumbers / allowedForMedia, and config.admin.phone
AllowedNumbers == {"p1", "a1"}
AdminPhone == "a1"

\* the greeting test /^(hi|hello|...)\b/i on the trimmed text: the text opens
\* with its greeting phrase
StartsWithGreeting(text) == "hi" \in text

\* rawPayload.id, or the fallback built from phone, text and timestamp
watiMessageId(payload) ==
    IF Truthy(payload.id) THEN [id |-> payload.id]
    ELSE [phone |-> payload.waId, text |-> payload.text, timestamp |-> payload.timestamp]

\* delete context[f]
DeleteProperty(context, f) == [g \in DOMAIN context \ {f} |-> context[g]]

WatiResult(conv, hist, processed, sent, notified, outcome) ==
    [conv |-> conv, hist |-> hist, processed |-> processed, sent |-> sent,
     notified |-> notified, outcome |-> outcome]

\* a message without text: an image is analysed and held for confirmation
watiMedia(conv, hist, processed, sent, notified, payload, extracted, t) ==
    LET phone == payload.waId
    IN IF phone \notin AllowedNumbers
       THEN WatiResult(conv, hist, processed, sent, notified, "media_ignored")
       ELSE IF payload.type = "image" /\ Truthy(payload.data) /\ extracted # {}
       THEN LET c0 == getOrCreateContext(conv, phone, t)
                c1 == ObjectAssign(c0[phone], [pendingImageData |-> extracted])
            IN WatiResult(updateContext([c0 EXCEPT ![phone] = c1], phone, c1, t),
                          hist, processed, sent + 1, notified, "image_held")
       ELSE WatiResult(conv, hist, processed,
                       IF hasContext(conv, phone) THEN sent + 1 ELSE sent,
                       notified, "media_unreadable")

\* the reply of the engine sent, the admin notified when the response asks for it
watiReplied(r, processed, sent, notified, outcome) ==
    WatiResult(r.conv, r.hist, processed, sent + 1,
               IF r.response.notification # NoNotification
               THEN notified + 1 ELSE notified,
               outcome)

\* aiService.handleIncomingMessage, the reply sent, the admin notified
watiEngine(b, conv, hist, processed, sent, notified, phone, text, env, t, outcome) ==
    watiReplied(handleIncomingMessage(b, conv, hist, phone, text, env.intent, env.aiOk, t),
                processed, sent, notified, outcome)

\* the context saved again without the delete
watiCleared_OnlySaves(conv, phone, t) ==
    updateContext(conv, phone, conv[phone], t)

\* the held image data was answered: the store with pendingImageData deleted
watiCleared(conv, phone, t) ==
    LET c1 == DeleteProperty(conv[phone], "pendingImageData")
    IN updateContext([conv EXCEPT ![phone] = c1], phone, c1, t)

\* the text path without the first-contact greeting gate
watiText_NoGreetingGate(b, conv, hist, processed, sent, notified, payload, env, t) ==
    LET phone == payload.waId
        text  == payload.text
        held  == hasContext(conv, phone) /\ Has(conv[phone], "pendingImageData")
    IN IF phone \notin AllowedNumbers
       THEN WatiResult(conv, hist, processed, sent, notified, "not_allowed")
       ELSE IF phone = AdminPhone
       THEN WatiResult(conv, hist, processed, sent + 1, notified, "admin")
       ELSE IF held /\ text = {"no"}
       THEN WatiResult(watiCleared(conv, phone, t), hist, processed, sent + 1, notified,
                       "image_rejected")
       ELSE watiEngine(b, IF held THEN watiCleared(conv, phone, t) ELSE conv,
                       hist, processed, sent, notified, phone,
                       IF held /\ text = {"yes"} THEN conv[phone].pendingImageData
                       ELSE text,
                       env, t,
                       IF held /\ text = {"yes"} THEN "image_confirmed" ELSE "answered")

\* a text message: test-mode filter, admin mode, greeting gate, held image data;
\* "yes" hands the held data to the engine in place of the text
watiText(b, conv, hist, processed, sent, notified, payload, env, t) ==
    LET phone == payload.waId
        text  == payload.text
        held  == hasContext(conv, phone) /\ Has(conv[phone], "pendingImageData")
    IN IF phone \notin AllowedNumbers
       THEN WatiResult(conv, hist, processed, sent, notified, "not_allowed")
       ELSE IF phone = AdminPhone
       THEN WatiResult(conv, hist, processed, sent + 1, notified, "admin")
       ELSE IF ~hasContext(conv, phone) /\ ~StartsWithGreeting(text)
       THEN WatiResult(conv, hist, processed, sent, notified, "no_greeting")
       ELSE IF held /\ text = {"no"}
       THEN WatiResult(watiCleared(conv, phone, t), hist, processed, sent + 1, notified,
                       "image_rejected")
       ELSE watiEngine(b, IF held THEN watiCleared(conv, phone, t) ELSE conv,
                       hist, processed, sent, notified, phone,
                       IF held /\ text = {"yes"} THEN conv[phone].pendingImageData
                       ELSE text,
                       env, t,
                       IF held /\ text = {"yes"} THEN "image_confirmed" ELSE "answered")

\* the key remembered only once the startup test has passed
watiWebhook_RecordsAfterStartup(b, conv, hist, processed, started, sent, notified, payload, env, t) ==
    IF ~Truthy(payload.waId)
    THEN WatiResult(conv, hist, processed, sent, notified, "no_sender")
    ELSE IF watiMessageId(payload) \in processed
    THEN WatiResult(conv, hist, processed, sent, notified, "dedup")
    ELSE IF ~started
    THEN WatiResult(conv, hist, processed, sent, notified, "startup_ignored")
    ELSE LET seen == processed \cup {watiMessageId(payload)}
         IN IF payload.text = {}
            THEN watiMedia(conv, hist, seen, sent, notified, payload, env.extracted, t)
            ELSE watiText(b, conv, hist, seen, sent, notified, payload, env, t)

\* the handler: sender test, dedup, startup anti-replay, then media or text
watiWebhook(b, conv, hist, processed, started, sent, notified, payload, env, t) ==
    IF ~Truthy(payload.waId)
    THEN WatiResult(conv, hist, processed, sent, notified, "no_sender")
    ELSE IF watiMessageId(payload) \in processed
    THEN WatiResult(conv, hist, processed, sent, notified, "dedup")
    ELSE LET seen == processed \cup {watiMessageId(payload)}
         IN IF ~started
            THEN WatiResult(conv, hist, seen, sent, notified, "startup_ignored")
            ELSE IF payload.text = {}
            THEN watiMedia(conv, hist, seen, sent, notified, payload, env.extracted, t)
            ELSE watiText(b, conv, hist, seen, sent, notified, payload, env, t)

WatiPayload(waId, text, id, type, data) ==
    [waId |-> waId, text |-> text, id |-> id, timestamp |-> "ts1", type |-> type,
     data |-> data]

\* the payloads WATI delivers in the model
WatiPayloads ==
    {WatiPayload("p1", {"hi"}, "m1", "text", Undefined),
     WatiPayload("p1", {"hi"}, Undefined, "text", Undefined),
     WatiPayload("p1", {"yes"}, "m2", "text", Undefined),
     WatiPayload("p1", {"no"}, "m6", "text", Undefined),
     WatiPayload("p1", {}, "m3", "image", "url"),
     WatiPayload("p9", {"hi"}, "m4", "text", Undefined),
     WatiPayload(Undefined, {"hi"}, "m5", "text", Undefined)}

\* what analyzeImage extracts from a screenshot ({} when it returns null)
ExtractedData == {"aa:bb:cc:dd:ee:ff", "device key k1"}

\* what the services answer while one delivery is handled
WatiEnvs ==
    [intent : {DefaultIntent, Intent("other", "frustrated", NoEntities)},
     aiOk : {TRUE},
     extracted : {{}, ExtractedData}]

\* the module state and the stores after a delivery that came to r
watiApplied(payload, r) ==
    /\ conversations' = r.conv
    /\ messageHistory' = r.hist
    /\ processedWatiMessages' = r.processed
    /\ watiSent' = r.sent
    /\ adminNotified' = r.notified
    /\ lastResponse' = [op |-> "watiWebhook", outcome |-> r.outcome, payload |-> payload]

\* one delivery to POST /webhooks/wati
WatiWebhook(payload, env) ==
    /\ watiApplied(payload,
                   watiWebhook(build, conversations, messageHistory, processedWatiMessages,
                               startupOver, watiSent, adminNotified, payload, env, now))
    /\ UNCHANGED <<build, configured, inflight, now, startupOver>>

\* the setTimeout callback of a processed key, ten minutes after it was added
WatiTimer(key) ==
    /\ startupOver
    /\ key \in processedWatiMessages
    /\ processedWatiMessages' = processedWatiMessages \ {key}
    /\ UNCHANGED <<build, configured, inflight, now, conversations, messageHistory, lastResponse, startupOver,
                   watiSent, adminNotified>>

\* five seconds have passed since the server started
StartupWindowEnds ==
    /\ ~startupOver
    /\ startupOver' = TRUE
    /\ UNCHANGED <<build, configured, inflight, now, conversations, messageHistory, lastResponse,
                   processedWatiMessages, watiSent, adminNotified>>

WatiNext ==
    \/ \E payload \in WatiPayloads, env \in WatiEnvs :
          watiSent < MaxWatiSent /\ WatiWebhook(payload, env)
    \/ \E key \in processedWatiMessages : WatiTimer(key)
    \/ StartupWindowEnds

SpecWati == Init /\ [][WatiNext]_vars

----------------------------------------------------------------------------
(* Vocabulary of the properties *)

\* the step handles one inbound message of p (it logs one more user entry)
InboundStep(p) ==
    /\ p \in DOMAIN messageHistory'
    /\ CountRole(messageHistory'[p], "user") = InboundCount(p) + 1

\* what handleIncomingMessage does with input in from the current state
Handled(p, in, aiOk) ==
    handleIncomingMessage(build, conversations, messageHistory, p,
                          in.text, in.intent, aiOk, now)

\* the message triggers escalation: explicit request, frustration, or a keyword
TriggersEscalation(in) ==
    \/ in.intent.intent = "human_request"
    \/ in.intent.sentiment = "frustrated"
    \/ IncludesAny(in.text, EscalationKeywords)

\* the message matches an escalation keyword and nothing else triggers
KeywordOnly(in) ==
    /\ IncludesAny(in.text, EscalationKeywords)
    /\ in.intent.intent # "human_request"
    /\ in.intent.sentiment # "frustrated"

\* the funnel's forward order
FunnelOrder ==
    <<"new", "awaiting_device", "awaiting_mac", "awaiting_content_pref", "trial_pending",
      "trial_active", "trial_expired", "awaiting_payment", "payment_pending",
      "active_subscriber">>

FunnelStates == {FunnelOrder[i] : i \in DOMAIN FunnelOrder}

Rank(state) == CHOOSE i \in DOMAIN FunnelOrder : FunnelOrder[i] = state

----------------------------------------------------------------------------
(* C1: once a context is in needs_human, every inbound message handled for   *)
(* it leaves it in needs_human.                                              *)
C1_NeedsHumanSticky ==
    [][\A p \in DOMAIN conversations :
          (conversations[p].state = "needs_human" /\ InboundStep(p))
             => conversations'[p].state = "needs_human"]_vars

C3_GhosterKeywordNoEscalation ==
    [][\A p \in DOMAIN conversations, in \in InboundInputs, aiOk \in BOOLEAN :
          (/\ conversations[p].state = "trial_expired"
           /\ conversations[p].followUpsSent >= 3
           /\ KeywordOnly(in)
           /\ HandleIncomingMessage(p, in, aiOk))
          => /\ conversations'[p].state # "needs_human"
             /\ lastResponse'.notification # "escalation"]_vars

(* C6: an inbound message handled in a funnel state leaves the context in    *)
(* needs_human or in the same or a later state of the funnel order.          *)
C6_NeverBackward ==
    [][\A p \in DOMAIN conversations :
          (conversations[p].state \in FunnelStates /\ InboundStep(p))
             => \/ conversations'[p].state = "needs_human"
                \/ /\ conversations'[p].state \in FunnelStates
                   /\ Rank(conversations'[p].state) >= Rank(conversations[p].state)]_vars

(* C7: the state auto-advance leaves state unchanged when it is trial_active, *)
(* trial_expired, awaiting_payment, payment_pending, active_subscriber or    *)
(* needs_human, whatever device, MAC, device key and preference are present. *)
C7_AutoAdvanceFrame ==
    \A p \in DOMAIN conversations, in \in InboundInputs :
       LET context == ContextAfterIntent(build, conversations, p, in.text, in.intent, now)
       IN context.state \in {"trial_active", "trial_expired", "awaiting_payment",
                             "payment_pending", "active_subscriber", "needs_human"}
          => updateStateFromContext(context).state = context.state

\* a message was answered in trial_active with device, MAC and preference all stored
C7_Witness ==
    \E p \in DOMAIN conversations :
       /\ lastResponse.op = "handleIncomingMessage"
       /\ lastResponse.notification = NoNotification
       /\ conversations[p].state = "trial_active"
       /\ Has(conversations[p], "device")
       /\ Has(conversations[p], "macAddress")
       /\ Has(conversations[p], "contentPreference")

\* the states the auto-advance leaves to the admin operations, needs_human apart
PostTrialStates ==
    {"trial_active", "trial_expired", "awaiting_payment", "payment_pending",
     "active_subscriber"}

----------------------------------------------------------------------------
\* the context of p is brand new: none stored yet
BrandNew(p) == ~hasContext(conversations, p)

\* the message supplies a device, a MAC and a content preference together
SuppliesAll(in) ==
    /\ extractDeviceType(in.text) # Undefined
    /\ extractMacAddress(in.text) # Undefined
    /\ extractContentPreference(in.text) # Undefined

(* C5: one message from a brand-new context that supplies device, MAC and    *)
(* content preference reaches trial_pending in that turn with a              *)
(* trial_request notification; a later message that leaves the state at      *)
(* trial_pending carries no trial_request.                                   *)
C5_AllFieldsAtOnce ==
    \A p \in Phones, in \in InboundInputs, aiOk \in BOOLEAN :
       LET r == Handled(p, in, aiOk)
       IN /\ (BrandNew(p) /\ SuppliesAll(in) /\ ~TriggersEscalation(in))
                => /\ r.conv[p].state = "trial_pending"
                   /\ r.response.notification = "trial_request"
          /\ (/\ hasContext(conversations, p)
              /\ conversations[p].state = "trial_pending"
              /\ r.conv[p].state = "trial_pending")
                => r.response.notification # "trial_request"

\* the first message of a customer reached trial_pending and notified the admin
C5_Witness ==
    \E p \in DOMAIN conversations :
       /\ InboundCount(p) = 1
       /\ conversations[p].state = "trial_pending"
       /\ lastResponse.op = "handleIncomingMessage"
       /\ lastResponse.notification = "trial_request"

----------------------------------------------------------------------------
(* The four-message walk through the funnel *)

DeviceTexts == {{"fire stick"}}
MacTexts == {{"aa:bb:cc:dd:ee:ff"}}
PreferenceTexts == {{"worldwide"}}

\* a message supplying one thing: in its text, in the extracted entities, or in both
Supplying(texts, entities) ==
    { [text |-> tx, intent |-> DefaultIntent] : tx \in texts }
    \cup { [text |-> tx, intent |-> Intent("other", "neutral", entities)] :
             tx \in texts \cup {{"hi"}} }

\* the k-th message of the walk: nothing, a device, a MAC, a content preference
FunnelScript ==
    << {[text |-> {"hi"}, intent |-> DefaultIntent]},
       Supplying(DeviceTexts, [device |-> "firestick"]),
       Supplying(MacTexts, [mac_address |-> "AA:BB:CC:DD:EE:FF"]),
       Supplying(PreferenceTexts, [content_preference |-> "worldwide"]) >>

FunnelMessage(p) ==
    /\ InboundCount(p) < Len(FunnelScript)
    /\ \E in \in FunnelScript[InboundCount(p) + 1], aiOk \in BOOLEAN :
          HandleIncomingMessage(p, in, aiOk)

FunnelNext ==
    \/ \E p \in Phones : FunnelMessage(p)
    \/ Tick

SpecFunnel == Init /\ [][FunnelNext]_vars

(* C4: a fresh phone whose messages supply nothing, a device, a MAC and a    *)
(* content preference is in awaiting_device, awaiting_mac,                   *)
(* awaiting_content_pref and trial_pending after them; each handled message  *)
(* has appended one assistant message; the response carries trial_request on *)
(* the message that reaches trial_pending and on no other.                   *)
C4_FunnelWalk ==
    \A p \in DOMAIN conversations :
       LET k == InboundCount(p)
       IN k >= 1 =>
             /\ conversations[p].state = FunnelOrder[k + 1]
             /\ CountRole(messageHistory[p], "assistant") = k
             /\ lastResponse.notification = "trial_request"
                   <=> conversations[p].state = "trial_pending"

\* the fourth message was handled: trial_pending, trial_request sent
C4_Witness ==
    \E p \in DOMAIN conversations :
       /\ InboundCount(p) = 4
       /\ CountRole(messageHistory[p], "assistant") = 4
       /\ conversations[p].state = "trial_pending"
       /\ lastResponse.notification = "trial_request"

----------------------------------------------------------------------------
(* The store under its callers, the clock running *)

\* bodies of PUT /api/chatbot/context/:phone: a state, a flag, and a record edited
\* from an earlier GET and put back whole
StoreBodies ==
    {[state |-> "trial_expired"],
     [needsHuman |-> FALSE],
     [state |-> "awaiting_payment", previousState |-> "trial_active", updatedAt |-> 0]}

StoreInputs ==
    {[text |-> {"paid"}, intent |-> Intent("payment", "neutral", NoEntities)]}

StoreNext ==
    \/ Tick
    \/ \E p \in Phones, body \in StoreBodies : PutContext(p, body)
    \/ \E p \in Phones, in \in StoreInputs, aiOk \in BOOLEAN :
          InboundCount(p) < MaxStoreInbound /\ HandleIncomingMessage(p, in, aiOk)
    \/ \E p \in Phones, c \in CredentialSets : ActivateTrial(p, c)
    \/ \E p \in Phones, type \in SentFollowUpTypes, sendOk \in BOOLEAN :
          /\ getOrCreateContext(conversations, p, now)[p].followUpsSent < MaxFollowUps
          /\ SendFollowUp(p, type, sendOk)

SpecStore == Init /\ [][StoreNext]_vars

(* C9: updatedAt of a stored context never decreases, whichever caller of    *)
(* updateContext runs: inbound handling, admin activation, follow-up, PUT.   *)
C9_UpdatedAtMonotone ==
    [][\A p \in DOMAIN conversations :
          conversations'[p].updatedAt >= conversations[p].updatedAt]_vars

\* a follow-up was sent to a context after it was created
C9_Witness ==
    \E p \in DOMAIN conversations :
       /\ Has(conversations[p], "lastFollowUpType")
       /\ conversations[p].updatedAt > conversations[p].createdAt

\* previousState of context, Undefined when it has none
PreviousStateOf(context) ==
    IF Has(context, "previousState") THEN context.previousState ELSE Undefined

\* the step is updateContext(p, body) called by the PUT route
Merging(p, body) ==
    /\ conversations' = updateContext(conversations, p, body, now)
    /\ UNCHANGED <<messageHistory, lastResponse>>

\* the record holds the fields of body afterwards, the others as before
FieldsMerged(before, after, body) ==
    /\ \A f \in DOMAIN body \ {"updatedAt", "previousState"} : after[f] = body[f]
    /\ \A f \in DOMAIN before \ (DOMAIN body \cup {"updatedAt", "previousState"}) :
          after[f] = before[f]

(* C10 as stated: updateContext merges the fields; when the partial holds a  *)
(* state different from the current one previousState afterwards is the      *)
(* state held before the call, otherwise previousState is unchanged.         *)
C10_PreviousStateTracked ==
    [][\A p \in Phones, body \in StoreBodies :
          Merging(p, body) =>
             LET before == getOrCreateContext(conversations, p, now)[p]
                 after == conversations'[p]
             IN /\ FieldsMerged(before, after, body)
                /\ IF Has(body, "state") /\ body.state # before.state
                   THEN PreviousStateOf(after) = before.state
                   ELSE PreviousStateOf(after) = PreviousStateOf(before)]_vars

(* C10 amended: the same for a partial without a previousState of its own;   *)
(* a previousState held by the partial is stored as given.                   *)
C10_PreviousStateUnlessGiven ==
    [][\A p \in Phones, body \in StoreBodies :
          Merging(p, body) =>
             LET before == getOrCreateContext(conversations, p, now)[p]
                 after == conversations'[p]
             IN /\ FieldsMerged(before, after, body)
                /\ IF Has(body, "previousState")
                   THEN PreviousStateOf(after) = body.previousState
                   ELSE IF Has(body, "state") /\ body.state # before.state
                   THEN PreviousStateOf(after) = before.state
                   ELSE PreviousStateOf(after) = PreviousStateOf(before)]_vars

\* a PUT of a new state recorded the state of the trial it replaced
C10_Witness ==
    \E p \in DOMAIN conversations :
       /\ conversations[p].state = "trial_expired"
       /\ PreviousStateOf(conversations[p]) = "trial_active"
       /\ Has(conversations[p], "trialStartedAt")

----------------------------------------------------------------------------
(* C11: a WATI delivery that names a sender is remembered under its message  *)
(* id (or phone + text + timestamp when it has none) until its timer fires,  *)
(* and while it is remembered a second delivery of it changes no context,    *)
(* no history, sends nothing and notifies no one.                            *)
C11_RedeliveryNoEffect ==
    [][(/\ lastResponse'.op = "watiWebhook"
        /\ Truthy(lastResponse'.payload.waId)
        /\ \E env \in WatiEnvs : WatiWebhook(lastResponse'.payload, env))
       => LET messageId == watiMessageId(lastResponse'.payload)
          IN /\ messageId \in processedWatiMessages'
             /\ messageId \in processedWatiMessages
                   => UNCHANGED <<conversations, messageHistory, watiSent,
                                  adminNotified>>]_vars

\* a message without provider id was answered, then delivered again and dropped
C11_Witness ==
    /\ lastResponse.op = "watiWebhook"
    /\ lastResponse.outcome = "dedup"
    /\ lastResponse.payload.id = Undefined
    /\ watiSent >= 1
    /\ "p1" \in DOMAIN messageHistory

----------------------------------------------------------------------------
(* The history under POST /api/chatbot/admin/send-message *)

\* the admin's messages are numbered in the order they are sent
NextSerial(p) ==
    IF p \in DOMAIN messageHistory /\ messageHistory[p] # <<>>
    THEN messageHistory[p][Len(messageHistory[p])].content + 1
    ELSE 1

\* POST /admin/send-message { phone, message }: sent, then logged as assistant
AdminSendMessage(p) ==
    /\ NextSerial(p) <= MaxAdminMessages
    /\ messageHistory' =
          addMessage(messageHistory, p,
                     [role |-> "assistant", content |-> NextSerial(p), timestamp |-> now])
    /\ UNCHANGED <<build, configured, inflight, now, conversations, lastResponse, watiVars>>

HistoryNext ==
    \/ \E p \in Phones : AdminSendMessage(p)
    \/ Tick

SpecHistory == Init /\ [][HistoryNext]_vars

(* C12: the stored history of a phone never holds more than 50 entries and   *)
(* is the most recent (up to 50) appended messages in append order: with n   *)
(* messages appended it holds messages max(1, n-49) .. n.                    *)
C12_HistoryIsLastFifty ==
    \A p \in DOMAIN messageHistory :
       LET h == messageHistory[p]
           n == h[Len(h)].content
       IN /\ Len(h) <= 50
          /\ Len(h) = IF n < 50 THEN n ELSE 50
          /\ \A i \in 1..Len(h) : h[i].content = n - Len(h) + i

\* two entries were dropped: the history starts at the third message sent
C12_Witness ==
    \E p \in DOMAIN messageHistory :
       /\ Len(messageHistory[p]) = 50
       /\ messageHistory[p][1].content = 3
       /\ messageHistory[p][50].content = 52

----------------------------------------------------------------------------
(* Follow-up scheduling: calculateFollowUpTime and the sweep *)

\* calculateFollowUpTime returned null
NoFollowUp == [type |-> "none"]

FollowUp(type, sendAt) == [type |-> type, sendAt |-> sendAt]

\* the first reminder still offered at the eighteenth hour itself
TrialFollowUp_ThroughEighteen(context, t) ==
    IF context.state = "trial_active" /\ Has(context, "trialStartedAt")
    THEN LET trialStart == context.trialStartedAt
             hoursSinceStart == t - trialStart
         IN IF hoursSinceStart <= 18 /\ context.followUpsSent = 0
            THEN FollowUp("trial_18h", trialStart + 18)
            ELSE IF hoursSinceStart < 23 /\ context.followUpsSent <= 1
            THEN FollowUp("trial_23h", trialStart + 23)
            ELSE NoFollowUp
    ELSE NoFollowUp

\* the second reminder only for a context that already got the first
TrialFollowUp_SecondNeedsFirst(context, t) ==
    IF context.state = "trial_active" /\ Has(context, "trialStartedAt")
    THEN LET trialStart == context.trialStartedAt
             hoursSinceStart == t - trialStart
         IN IF hoursSinceStart < 18 /\ context.followUpsSent = 0
            THEN FollowUp("trial_18h", trialStart + 18)
            ELSE IF hoursSinceStart < 23 /\ context.followUpsSent = 1
            THEN FollowUp("trial_23h", trialStart + 23)
            ELSE NoFollowUp
    ELSE NoFollowUp

\* the "Trial follow-ups" block
TrialFollowUp(context, t) ==
    IF context.state = "trial_active" /\ Has(context, "trialStartedAt")
    THEN LET trialStart == context.trialStartedAt
             hoursSinceStart == t - trialStart
         IN IF hoursSinceStart < 18 /\ context.followUpsSent = 0
            THEN FollowUp("trial_18h", trialStart + 18)
            ELSE IF hoursSinceStart < 23 /\ context.followUpsSent <= 1
            THEN FollowUp("trial_23h", trialStart + 23)
            ELSE NoFollowUp
    ELSE NoFollowUp

\* the "Ghoster follow-ups" block
GhosterFollowUp(context, t) ==
    IF context.state = "awaiting_mac" /\ Has(context, "lastMessageAt")
    THEN LET hoursSinceLastMsg == t - context.lastMessageAt
         IN IF hoursSinceLastMsg >= 4 /\ context.followUpsSent = 0
            THEN FollowUp("ghoster_4h", t)
            ELSE IF hoursSinceLastMsg >= 24 /\ context.followUpsSent = 1
            THEN FollowUp("ghoster_nextday", t)
            ELSE NoFollowUp
    ELSE NoFollowUp

\* the day-1 follow-up sent twice instead of three times
PostTrialFollowUp_DayOneTwice(context, t) ==
    IF context.state = "trial_expired" /\ Has(context, "trialExpiresAt")
    THEN LET hoursSinceExpiry == t - context.trialExpiresAt
         IN IF hoursSinceExpiry >= DayHours /\ context.followUpsSent < 2
            THEN FollowUp("day1_followup", t)
            ELSE IF hoursSinceExpiry >= 3 * DayHours /\ context.followUpsSent <= 3
            THEN FollowUp("day3_followup", t)
            ELSE IF hoursSinceExpiry >= 7 * DayHours /\ context.followUpsSent <= 4
            THEN FollowUp("day7_final", t)
            ELSE NoFollowUp
    ELSE NoFollowUp

\* the final follow-up offered whatever the number already sent
PostTrialFollowUp_FinalUnguarded(context, t) ==
    IF context.state = "trial_expired" /\ Has(context, "trialExpiresAt")
    THEN LET hoursSinceExpiry == t - context.trialExpiresAt
         IN IF hoursSinceExpiry >= DayHours /\ context.followUpsSent <= 2
            THEN FollowUp("day1_followup", t)
            ELSE IF hoursSinceExpiry >= 3 * DayHours /\ context.followUpsSent <= 3
            THEN FollowUp("day3_followup", t)
            ELSE IF hoursSinceExpiry >= 7 * DayHours
            THEN FollowUp("day7_final", t)
            ELSE NoFollowUp
    ELSE NoFollowUp

\* the rules tried from the last one to the first
PostTrialFollowUp_LastRuleFirst(context, t) ==
    IF context.state = "trial_expired" /\ Has(context, "trialExpiresAt")
    THEN LET hoursSinceExpiry == t - context.trialExpiresAt
         IN IF hoursSinceExpiry >= 7 * DayHours /\ context.followUpsSent <= 4
            THEN FollowUp("day7_final", t)
            ELSE IF hoursSinceExpiry >= 3 * DayHours /\ context.followUpsSent <= 3
            THEN FollowUp("day3_followup", t)
            ELSE IF hoursSinceExpiry >= DayHours /\ context.followUpsSent <= 2
            THEN FollowUp("day1_followup", t)
            ELSE NoFollowUp
    ELSE NoFollowUp

\* the "Post-trial follow-ups" block: daysSinceExpiry >= n is n days of hours
PostTrialFollowUp(context, t) ==
    IF context.state = "trial_expired" /\ Has(context, "trialExpiresAt")
    THEN LET hoursSinceExpiry == t - context.trialExpiresAt
         IN IF hoursSinceExpiry >= DayHours /\ context.followUpsSent <= 2
            THEN FollowUp("day1_followup", t)
            ELSE IF hoursSinceExpiry >= 3 * DayHours /\ context.followUpsSent <= 3
            THEN FollowUp("day3_followup", t)
            ELSE IF hoursSinceExpiry >= 7 * DayHours /\ context.followUpsSent <= 4
            THEN FollowUp("day7_final", t)
            ELSE NoFollowUp
    ELSE NoFollowUp

\* calculateFollowUpTime(context) at time t: a block that returns nothing falls
\* through to the next one
calculateFollowUpTime(context, t) ==
    IF TrialFollowUp(context, t) # NoFollowUp THEN TrialFollowUp(context, t)
    ELSE IF GhosterFollowUp(context, t) # NoFollowUp THEN GhosterFollowUp(context, t)
    ELSE PostTrialFollowUp(context, t)

\* every context with a follow-up, whenever it is to be sent
getTrialsNeedingFollowUp_IgnoresSendAt(conv, t) ==
    {p \in DOMAIN conv : calculateFollowUpTime(conv[p], t) # NoFollowUp}

\* getTrialsNeedingFollowUp() at time t: the phones of the contexts returned
getTrialsNeedingFollowUp(conv, t) ==
    {p \in DOMAIN conv :
        LET followUp == calculateFollowUpTime(conv[p], t)
        IN followUp # NoFollowUp /\ followUp.sendAt <= t}

\* the instants (in hours) at which the routes are called
Instants == <<0, 18, 23, 48, 96, 192>>

\* the clock moves to the next instant
Elapse ==
    /\ \E i \in 1..(Len(Instants) - 1) : now = Instants[i] /\ now' = Instants[i + 1]
    /\ UNCHANGED <<build, configured, inflight, conversations, messageHistory, lastResponse, watiVars>>

\* GET /api/chatbot/follow-ups
GetFollowUps ==
    /\ lastResponse' = [op |-> "getFollowUps",
                        customers |-> getTrialsNeedingFollowUp(conversations, now)]
    /\ UNCHANGED <<build, configured, inflight, now, conversations, messageHistory, watiVars>>

\* PUT bodies and the inbound message of the follow-up runs
ReminderBodies == {[state |-> "trial_expired"]}
ReminderInputs == {[text |-> {"fire stick"}, intent |-> DefaultIntent]}
ReminderTypes == {"trial_18h"}

FollowUpNext ==
    \/ Elapse
    \/ GetFollowUps
    \/ \E p \in Phones, c \in CredentialSets : ActivateTrial(p, c)
    \/ \E p \in Phones, body \in ReminderBodies : PutContext(p, body)
    \/ \E p \in Phones, in \in ReminderInputs :
          InboundCount(p) < MaxStoreInbound /\ HandleIncomingMessage(p, in, TRUE)
    \/ \E p \in Phones, type \in ReminderTypes :
          /\ p \in DOMAIN conversations => conversations[p].followUpsSent < MaxReminders
          /\ SendFollowUp(p, type, TRUE)

SpecFollowUp == InitCurrent /\ [][FollowUpNext]_vars

(* C13: a trial_active context with no follow-up sent whose trial started    *)
(* at least 18 and less than 23 hours ago has the follow-up trial_18h with   *)
(* send time start + 18h, which has passed, and the sweep returns it.        *)
C13_TrialReminderDue ==
    \A p \in DOMAIN conversations :
       LET c == conversations[p]
       IN (/\ c.state = "trial_active"
           /\ Has(c, "trialStartedAt")
           /\ c.followUpsSent = 0
           /\ now - c.trialStartedAt >= 18
           /\ now - c.trialStartedAt < 23)
          => /\ calculateFollowUpTime(c, now) = FollowUp("trial_18h", c.trialStartedAt + 18)
             /\ calculateFollowUpTime(c, now).sendAt <= now
             /\ p \in getTrialsNeedingFollowUp(conversations, now)

(* C14: for a trial_active context with a trial start and h hours elapsed,   *)
(* the follow-up is (trial_18h, start + 18h) when h < 18 and none was sent,  *)
(* otherwise (trial_23h, start + 23h) when h < 23 and at most one was sent,  *)
(* otherwise none.                                                           *)
C14_TrialRules ==
    \A p \in DOMAIN conversations :
       LET c == conversations[p]
       IN (c.state = "trial_active" /\ Has(c, "trialStartedAt"))
          => LET h == now - c.trialStartedAt
                 f == c.followUpsSent
             IN calculateFollowUpTime(c, now) =
                   IF h < 18 /\ f = 0 THEN [type |-> "trial_18h", sendAt |-> c.trialStartedAt + 18]
                   ELSE IF h < 23 /\ f <= 1
                        THEN [type |-> "trial_23h", sendAt |-> c.trialStartedAt + 23]
                        ELSE [type |-> "none"]

\* 18 hours into the trial with no follow-up sent: the second rule applies
C14_Witness ==
    \E p \in DOMAIN conversations :
       /\ conversations[p].state = "trial_active"
       /\ conversations[p].followUpsSent = 0
       /\ now - conversations[p].trialStartedAt = 18
       /\ calculateFollowUpTime(conversations[p], now).type = "trial_23h"

(* C15: for a trial_expired context with a trial expiry and d days elapsed,  *)
(* the follow-up is the first rule that matches among day1_followup (d >= 1, *)
(* at most 2 sent), day3_followup (d >= 3, at most 3 sent), day7_final       *)
(* (d >= 7, at most 4 sent), else none; its send time is now.                *)
C15_PostTrialRules ==
    \A p \in DOMAIN conversations :
       LET c == conversations[p]
       IN (c.state = "trial_expired" /\ Has(c, "trialExpiresAt"))
          => LET hours == now - c.trialExpiresAt
                 f == c.followUpsSent
             IN calculateFollowUpTime(c, now) =
                   IF hours >= 24 /\ f <= 2 THEN [type |-> "day1_followup", sendAt |-> now]
                   ELSE IF hours >= 72 /\ f <= 3
                        THEN [type |-> "day3_followup", sendAt |-> now]
                   ELSE IF hours >= 168 /\ f <= 4
                        THEN [type |-> "day7_final", sendAt |-> now]
                        ELSE [type |-> "none"]

\* seven days after the expiry with four follow-ups sent: only the last rule matches
C15_Witness ==
    \E p \in DOMAIN conversations :
       /\ conversations[p].state = "trial_expired"
       /\ Has(conversations[p], "trialExpiresAt")
       /\ conversations[p].followUpsSent = 4
       /\ now - conversations[p].trialExpiresAt >= 168
       /\ calculateFollowUpTime(conversations[p], now).type = "day7_final"

----------------------------------------------------------------------------
(* The admin activations, the clock running *)

AdminInputs ==
    {[text |-> {"fire stick"}, intent |-> DefaultIntent],
     [text |-> {"refund"}, intent |-> DefaultIntent],
     [text |-> {"paid"}, intent |-> Intent("payment", "neutral", NoEntities)]}

AdminNext ==
    \/ Tick
    \/ \E p \in Phones, c \in CredentialSets : ActivateTrial(p, c)
    \/ \E p \in Phones, plan \in PlanTypes, c \in CredentialSets :
          ActivateSubscription(p, plan, c)
    \/ \E p \in Phones, in \in AdminInputs :
          InboundCount(p) < MaxStoreInbound /\ HandleIncomingMessage(p, in, TRUE)

SpecAdmin == InitCurrent /\ [][AdminNext]_vars

(* C17: after activateTrial(phone, credentials), whatever the phone's state  *)
(* before (no context included), the stored context is trial_active, its    *)
(* trial start is the time of the call, its trial expiry is 24 hours later,  *)
(* and it holds the credentials given with the stream URL derived from them. *)
C17_TrialActivation ==
    [][\A p \in Phones, c \in CredentialSets :
          ActivateTrial(p, c)
             => /\ p \in DOMAIN conversations'
                /\ conversations'[p].state = "trial_active"
                /\ conversations'[p].trialStartedAt = now
                /\ conversations'[p].trialExpiresAt = now + 24
                /\ conversations'[p].credentials =
                      [username |-> c.username, password |-> c.password, url |-> c.url,
                       m3uUrl |-> <<c.url, "/get.php?username=", c.username,
                                    "&password=", c.password,
                                    "&type=m3u_plus&output=ts">>]]_vars

\* a subscriber was put back on a trial after the clock moved
C17_Witness ==
    /\ lastResponse.op = "activateTrial"
    /\ \E p \in DOMAIN conversations :
          /\ conversations[p].state = "trial_active"
          /\ Has(conversations[p], "subscribedAt")
          /\ conversations[p].trialStartedAt = now
          /\ conversations[p].updatedAt = now
          /\ now > 0

----------------------------------------------------------------------------
(* Collected fields under heuristics and classifier entities *)

\* the fields a conversation collects
CollectedFields == {"device", "macAddress", "deviceKey", "contentPreference", "paymentMethod"}

\* messages whose text and whose classifier entities name values for the same fields
EntityInputs ==
    {[text |-> {"fire stick"}, intent |-> DefaultIntent],
     [text |-> {"aa:bb:cc:dd:ee:ff"}, intent |-> DefaultIntent],
     [text |-> {"hi"}, intent |-> Intent("other", "neutral", [device |-> "smart_tv"])],
     [text |-> {"hi"}, intent |-> Intent("other", "neutral", [device |-> "none"])],
     [text |-> {"hi"}, intent |-> Intent("other", "neutral",
                                         [mac_address |-> "11:22:33:44:55:66"])],
     [text |-> {"worldwide"}, intent |-> Intent("other", "neutral",
                                                [content_preference |-> "english"])]}

EntitiesNext ==
    \/ Tick
    \/ \E p \in Phones, in \in EntityInputs :
          InboundCount(p) < MaxInbound /\ HandleIncomingMessage(p, in, TRUE)

SpecEntities == Init /\ [][EntitiesNext]_vars

SpecEntitiesCurrent == InitCurrent /\ [][EntitiesNext]_vars

(* C20: once device, macAddress, deviceKey, contentPreference or             *)
(* paymentMethod has a value on a context, no later inbound message changes  *)
(* it: heuristics and classifier entities only fill fields that are empty.   *)
C20_CollectedValuesKept ==
    [][\A p \in DOMAIN conversations, f \in CollectedFields :
          Has(conversations[p], f)
             => /\ Has(conversations'[p], f)
                /\ conversations'[p][f] = conversations[p][f]]_vars

----------------------------------------------------------------------------
(* The intent call and its failures *)

\* the IntentResult detectIntent builds itself; confidence in tenths (0.5 is 5)
NeutralIntent(confidence) ==
    [intent |-> "other", confidence |-> confidence, entities |-> NoEntities,
     sentiment |-> "neutral", needs_human |-> FALSE]

\* a full IntentResult as the hosted model words it
FullIntent(label, sentiment, entities) ==
    [intent |-> label, confidence |-> 9, entities |-> entities,
     sentiment |-> sentiment, needs_human |-> FALSE]

\* what messages.create and the parsing of its text come to: the call rejects,
\* the text holds no {...}, JSON.parse throws on the match, or it returns a value
IntentCallOutcomes ==
    {[kind |-> "call_error"], [kind |-> "no_json"], [kind |-> "unparsable"],
     [kind |-> "parsed", value |-> FullIntent("pricing", "neutral", NoEntities)],
     [kind |-> "parsed", value |-> FullIntent("other", "neutral", [device |-> "firestick"])],
     [kind |-> "parsed", value |-> [intent |-> "pricing"]]}

\* detectIntent(message): JSON.parse's value is returned as it is
detectIntent(isConfigured, outcome) ==
    IF ~isConfigured THEN NeutralIntent(0)
    ELSE IF outcome.kind = "parsed" THEN outcome.value
    ELSE NeutralIntent(5)

\* the stored context when updateContextFromIntent throws on intent.entities.device:
\* sentiment was assigned, and in the current build the heuristics were applied
ContextAtEntitiesThrow(b, conv, p, text, intent, t) ==
    LET c0 == getOrCreateContext(conv, p, t)[p]
        c1 == ObjectAssign(c0, [lastMessageAt |-> t])
        c2 == ObjectAssign(c1, [sentiment |-> IF Has(intent, "sentiment")
                                              THEN intent.sentiment ELSE Undefined])
    IN IF b = "current" THEN HeuristicFills(c2, text) ELSE c2

\* handleIncomingMessage(p, text) with the intent call as it came out:
\* [conv, hist, threw, response]
handleIncomingMessageWith(b, isConfigured, conv, hist, p, text, outcome, aiOk, t) ==
    IF ~isConfigured
    THEN [conv |-> conv, hist |-> hist, threw |-> TRUE]
    ELSE LET intent == detectIntent(isConfigured, outcome)
         IN IF ~Has(intent, "entities")
            THEN [conv |-> [q \in DOMAIN conv \cup {p} |->
                               IF q = p THEN ContextAtEntitiesThrow(b, conv, p, text, intent, t)
                               ELSE conv[q]],
                  hist |-> addMessage(hist, p, UserMessage),
                  threw |-> TRUE]
            ELSE ObjectAssign(handleIncomingMessage(b, conv, hist, p, text, intent, aiOk, t),
                              [threw |-> FALSE])

\* what the caller of handleIncomingMessage gets: a rejection or the response
IntentResponse(p, r, intent) ==
    IF r.threw
    THEN [op |-> "handleIncomingMessage", phone |-> p, threw |-> TRUE, intent |-> intent]
    ELSE [op |-> "handleIncomingMessage", phone |-> p, threw |-> FALSE, intent |-> intent,
          message |-> r.response.message, state |-> r.response.context.state]

\* the stores and the response after a call that came to r
StoreHandled(p, r, intent) ==
    /\ conversations' = r.conv
    /\ messageHistory' = r.hist
    /\ lastResponse' = IntentResponse(p, r, intent)

\* aiService.handleIncomingMessage(p, text), the intent call coming out as outcome
DetectAndHandle(p, text, outcome, aiOk) ==
    /\ StoreHandled(p, handleIncomingMessageWith(build, configured, conversations,
                                             messageHistory, p, text, outcome, aiOk, now),
                detectIntent(configured, outcome))
    /\ UNCHANGED <<build, configured, inflight, now, watiVars>>

IntentTexts == {{"hi"}, {"fire stick"}, {"price"}}

\* the service constructed with or without an API key
InitIntent == InitStores /\ configured \in BOOLEAN

IntentNext ==
    \/ Tick
    \/ \E p \in Phones, text \in IntentTexts, outcome \in IntentCallOutcomes,
          aiOk \in BOOLEAN :
          InboundCount(p) < MaxInbound /\ DetectAndHandle(p, text, outcome, aiOk)

SpecIntent == InitIntent /\ [][IntentNext]_vars

\* the intent call failed: no client, a rejected call, no JSON object in the
\* text, or a match that JSON.parse rejects
ClassificationFailed(outcome) ==
    ~configured \/ outcome.kind \in {"call_error", "no_json", "unparsable"}

(* C19: a classification failure never blocks the conversation: when the     *)
(* model is not configured, the call fails, or its text holds no parsable    *)
(* JSON object, detectIntent returns the neutral default (other, no          *)
(* entities, neutral, needs_human false, confidence 0 unconfigured and 0.5   *)
(* after a failed call) and handleIncomingMessage completes with a reply.    *)
C19_FailureNeverBlocks ==
    [][\A p \in Phones, text \in IntentTexts, outcome \in IntentCallOutcomes,
          aiOk \in BOOLEAN :
          (ClassificationFailed(outcome) /\ DetectAndHandle(p, text, outcome, aiOk))
             => /\ detectIntent(configured, outcome) =
                      [intent |-> "other", confidence |-> IF configured THEN 5 ELSE 0,
                       entities |-> NoEntities, sentiment |-> "neutral",
                       needs_human |-> FALSE]
                /\ ~lastResponse'.threw
                /\ lastResponse'.message # Undefined]_vars

----------------------------------------------------------------------------
(* C21: when the model call fails while the reply is generated, the customer *)
(* gets the apology, the stored context is forced into needs-human           *)
(* (needsHuman true and state needs_human) and the response carries an       *)
(* escalation notification.                                                  *)
C21_ReplyFailureEscalates ==
    [][\A p \in Phones, in \in InboundInputs :
          (~TriggersEscalation(in) /\ HandleIncomingMessage(p, in, FALSE))
             => /\ lastResponse'.message = "ai_error_apology"
                /\ conversations'[p].needsHuman
                /\ conversations'[p].state = "needs_human"
                /\ lastResponse'.notification = "escalation"]_vars

----------------------------------------------------------------------------
(* handleIncomingMessage calls interleaved at their awaits (current build)   *)

ConcurrentPhones == {"p1", "p2"}

ConcurrentInputs ==
    {[text |-> {"hi"}, intent |-> DefaultIntent],
     [text |-> {"fire stick", "aa:bb:cc:dd:ee:ff", "worldwide"}, intent |-> DefaultIntent],
     [text |-> {"refund"}, intent |-> DefaultIntent]}

\* the call starts: context read or created, lastMessageAt set, the user
\* message logged; then it awaits detectIntent
StartHandling(r, p, in) ==
    /\ inflight[r].pc = "idle"
    /\ LET c0 == getOrCreateContext(conversations, p, now)
       IN conversations' = [c0 EXCEPT ![p] = ObjectAssign(c0[p], [lastMessageAt |-> now])]
    /\ messageHistory' = addMessage(messageHistory, p, UserMessage)
    /\ inflight' = [inflight EXCEPT ![r] = [pc |-> "detecting", phone |-> p,
                                            text |-> in.text, intent |-> in.intent]]
    /\ UNCHANGED <<build, configured, now, lastResponse, watiVars>>

\* the call after detectIntent resolved
RequestDetected(r, ctx) ==
    IF shouldEscalateToHuman(ctx, inflight[r].text, inflight[r].intent.intent)
    THEN [inflight[r] EXCEPT !.pc = "done"] @@
         [message |-> "escalation_ack", notification |-> "escalation"]
    ELSE [inflight[r] EXCEPT !.pc = "generating"] @@ [prevState |-> ctx.state]

\* the escalation branch setting the state without the needsHuman flag
ContextDetected_StateOnly(r, ctx, t) ==
    IF shouldEscalateToHuman(ctx, inflight[r].text, inflight[r].intent.intent)
    THEN MergeUpdates(ObjectAssign(ctx, [state |-> "needs_human"]),
                      ObjectAssign(ctx, [state |-> "needs_human"]), t)
    ELSE updateStateFromContext(ctx)

\* the stored context after detectIntent resolved: escalated and saved, or auto-advanced
ContextDetected(r, ctx, t) ==
    IF shouldEscalateToHuman(ctx, inflight[r].text, inflight[r].intent.intent)
    THEN MergeUpdates(ObjectAssign(ctx, [needsHuman |-> TRUE, state |-> "needs_human"]),
                      ObjectAssign(ctx, [needsHuman |-> TRUE, state |-> "needs_human"]), t)
    ELSE updateStateFromContext(ctx)

\* detectIntent resolves: entities merged, escalation checked; without escalation
\* processMessage notes prevState, auto-advances and awaits generateAIResponse
IntentDetected(r) ==
    /\ inflight[r].pc = "detecting"
    /\ conversations' =
          [conversations EXCEPT ![inflight[r].phone] =
              ContextDetected(r, updateContextFromIntent(@, inflight[r].intent,
                                                         inflight[r].text), now)]
    /\ inflight' =
          [inflight EXCEPT ![r] =
              RequestDetected(r, updateContextFromIntent(conversations[inflight[r].phone],
                                                         inflight[r].intent,
                                                         inflight[r].text))]
    /\ UNCHANGED <<build, configured, now, messageHistory, lastResponse, watiVars>>

\* the response of processMessage once generateAIResponse resolved on context
RequestReplied(r, context, response) ==
    [inflight[r] EXCEPT !.pc = "done"] @@
    [message |-> response.message,
     notification |->
        IF AdminNotificationType(context, inflight[r].prevState, inflight[r].intent,
                                 inflight[r].text) # NoNotification
        THEN AdminNotificationType(context, inflight[r].prevState, inflight[r].intent,
                                   inflight[r].text)
        ELSE response.notification]

\* the stored context once generateAIResponse resolved: checkForAdminNotification
\* wrote it, then updateContext merged response.context into it
ContextReplied(r, context, response, t) ==
    MergeUpdates(checkForAdminNotification(context, inflight[r].prevState,
                                           inflight[r].intent, inflight[r].text),
                 IF response.live
                 THEN checkForAdminNotification(context, inflight[r].prevState,
                                                inflight[r].intent, inflight[r].text)
                 ELSE response.context,
                 t)

\* generateAIResponse resolves: notification decided on the stored context as it
\* is now, the reply logged, the context saved
ReplyGenerated(r, aiOk) ==
    /\ inflight[r].pc = "generating"
    /\ conversations' =
          [conversations EXCEPT ![inflight[r].phone] =
              ContextReplied(r, @, generateAIResponse(@, aiOk), now)]
    /\ messageHistory' = addMessage(messageHistory, inflight[r].phone, AssistantMessage)
    /\ inflight' =
          [inflight EXCEPT ![r] =
              RequestReplied(r, conversations[inflight[r].phone],
                             generateAIResponse(conversations[inflight[r].phone], aiOk))]
    /\ UNCHANGED <<build, configured, now, lastResponse, watiVars>>

ConcurrentNext ==
    \/ \E r \in Requests, p \in ConcurrentPhones, in \in ConcurrentInputs :
          StartHandling(r, p, in)
    \/ \E r \in Requests : IntentDetected(r)
    \/ \E r \in Requests : ReplyGenerated(r, TRUE)
    \/ \E p \in ConcurrentPhones, c \in CredentialSets : ActivateTrial(p, c)
    \/ \E p \in ConcurrentPhones, type \in SentFollowUpTypes :
          /\ getOrCreateContext(conversations, p, now)[p].followUpsSent < MaxFollowUps
          /\ SendFollowUp(p, type, TRUE)

SpecConcurrent == InitCurrent /\ [][ConcurrentNext]_vars

\* the calls that ended with a trial_request notification
TrialRequests ==
    {r \in Requests : inflight[r].pc = "done" /\ inflight[r].notification = "trial_request"}

(* C22: two inbound messages of one phone handled concurrently have the      *)
(* effect of some serial order: the single transition into trial_pending     *)
(* produces exactly one trial_request notification, never two.               *)
C22_OneTrialRequest ==
    \A p \in ConcurrentPhones :
       Cardinality({r \in TrialRequests : inflight[r].phone = p}) <= 1

\* the step is a step of an operation on phone p
OperatesOn(p) ==
    \/ \E r \in Requests, in \in ConcurrentInputs : StartHandling(r, p, in)
    \/ \E r \in Requests :
          /\ inflight[r].pc # "idle"
          /\ inflight[r].phone = p
          /\ IntentDetected(r) \/ ReplyGenerated(r, TRUE)
    \/ \E c \in CredentialSets : ActivateTrial(p, c)
    \/ \E type \in SentFollowUpTypes : SendFollowUp(p, type, TRUE)

(* C23: an inbound message, an admin activation or a follow-up send for      *)
(* phone A leaves the context and the history of every other phone B as they *)
(* were, and B's context stays in the store, for every interleaving.         *)
C23_OtherPhonesUntouched ==
    [][\A a \in ConcurrentPhones :
          OperatesOn(a)
             => /\ \A b \in DOMAIN conversations \ {a} :
                      b \in DOMAIN conversations' /\ conversations'[b] = conversations[b]
                /\ \A b \in DOMAIN messageHistory \ {a} :
                      b \in DOMAIN messageHistory' /\ messageHistory'[b] = messageHistory[b]
                /\ DOMAIN conversations' \subseteq DOMAIN conversations \cup {a}]_vars

\* both phones were served in interleaved calls: one reached trial_pending,
\* the other is on a trial and got a follow-up
C23_Witness ==
    /\ \A r \in Requests : inflight[r].pc = "done"
    /\ inflight["r1"].phone = "p1" /\ inflight["r2"].phone = "p2"
    /\ {"p1", "p2"} \subseteq DOMAIN conversations
    /\ conversations["p1"].state = "trial_pending"
    /\ conversations["p2"].state = "trial_active"
    /\ conversations["p2"].followUpsSent = 1
    /\ Len(messageHistory["p1"]) = 2

----------------------------------------------------------------------------
\* the step is a delivery whose text was handled for its sender
TextReplyHandled ==
    /\ lastResponse'.op = "watiWebhook"
    /\ lastResponse'.outcome \in {"image_confirmed", "image_rejected", "answered"}
    /\ \E env \in WatiEnvs : WatiWebhook(lastResponse'.payload, env)

(* C24: text extracted from a screenshot is held as pendingImageData only:   *)
(* it goes through the engine only when the next text reply is affirmative;  *)
(* on "no" or any other reply it is dropped without reaching macAddress or   *)
(* deviceKey; after that reply pendingImageData is absent in every case.     *)
C24_HeldImageData ==
    [][TextReplyHandled
          => LET p == lastResponse'.payload.waId
             IN (hasContext(conversations, p) /\ Has(conversations[p], "pendingImageData"))
                => /\ ~Has(conversations'[p], "pendingImageData")
                   /\ lastResponse'.outcome = "image_confirmed"
                         <=> lastResponse'.payload.text = {"yes"}
                   /\ lastResponse'.payload.text # {"yes"}
                         => \A f \in {"macAddress", "deviceKey"} :
                               /\ Has(conversations'[p], f) <=> Has(conversations[p], f)
                               /\ Has(conversations[p], f)
                                     => conversations'[p][f] = conversations[p][f]]_vars

\* the customer confirmed: the held MAC address is on the context, nothing is held
C24_Witness ==
    /\ lastResponse.op = "watiWebhook"
    /\ lastResponse.outcome = "image_confirmed"
    /\ build = "current"
    /\ Has(conversations["p1"], "macAddress")
    /\ ~Has(conversations["p1"], "pendingImageData")

----------------------------------------------------------------------------
(* C25: a message with intent pricing that does not escalate gets the        *)
(* pricing message and moves the state to awaiting_payment in every state    *)
(* other than needs_human; in needs_human it is not pre-empted and the state *)
(* stays.                                                                    *)
C25_PricingPreempts ==
    [][\A p \in Phones, in \in InboundInputs, aiOk \in BOOLEAN :
          (/\ in.intent.intent = "pricing"
           /\ ~TriggersEscalation(in)
           /\ HandleIncomingMessage(p, in, aiOk))
          => IF hasContext(conversations, p) /\ conversations[p].state = "needs_human"
             THEN /\ conversations'[p].state = "needs_human"
                  /\ lastResponse'.message # "pricing"
             ELSE /\ lastResponse'.message = "pricing"
                  /\ conversations'[p].state = "awaiting_payment"]_vars

(* C26: a message with intent technical_issue that does not escalate, in any *)
(* state other than needs_human, yields an admin notification of type        *)
(* technical_issue: no other notification type takes its place.              *)
C26_TechnicalIssueNotified ==
    [][\A p \in Phones, in \in InboundInputs, aiOk \in BOOLEAN :
          (/\ in.intent.intent = "technical_issue"
           /\ ~TriggersEscalation(in)
           /\ ~(hasContext(conversations, p) /\ conversations[p].state = "needs_human")
           /\ HandleIncomingMessage(p, in, aiOk))
          => lastResponse'.notification = "technical_issue"]_vars

----------------------------------------------------------------------------
(* The payment stage: the admin places a context in a payment state and the  *)
(* customer writes about the payment.                                        *)

\* inbound messages about a payment, with what the hosted model said of them
PaymentInputs ==
    {[text |-> {"hi"}, intent |-> DefaultIntent],
     [text |-> {"paid"}, intent |-> DefaultIntent],
     [text |-> {"paid"}, intent |-> Intent("payment", "neutral", NoEntities)],
     [text |-> {"paid", "paypal"}, intent |-> Intent("payment", "neutral", NoEntities)],
     [text |-> {"paid", "yearly"}, intent |-> Intent("payment", "neutral", NoEntities)],
     [text |-> {"hi"}, intent |-> Intent("pricing", "neutral", NoEntities)]}

\* the states the admin sets in this stage
PaymentBodies == {[state |-> "trial_expired"], [state |-> "awaiting_payment"]}

PaymentNext ==
    \/ \E p \in Phones, in \in PaymentInputs, aiOk \in BOOLEAN :
          InboundCount(p) < MaxInbound /\ HandleIncomingMessage(p, in, aiOk)
    \/ \E p \in Phones, body \in PaymentBodies : PutContext(p, body)

SpecPayment == Init /\ [][PaymentNext]_vars

(* C27: in trial_expired or awaiting_payment, a non-escalating message that  *)
(* contains a payment-confirmation phrase moves the state to payment_pending,*)
(* sets paymentPending and yields a payment_received notification, whatever  *)
(* payment-method or plan keyword the message also contains.                 *)
C27_PaymentConfirmed ==
    [][\A p \in Phones, in \in PaymentInputs, aiOk \in BOOLEAN :
          (/\ hasContext(conversations, p)
           /\ conversations[p].state \in {"trial_expired", "awaiting_payment"}
           /\ isPaymentConfirmation(in.text)
           /\ ~TriggersEscalation(in)
           /\ HandleIncomingMessage(p, in, aiOk))
          => /\ conversations'[p].state = "payment_pending"
             /\ Has(conversations'[p], "paymentPending")
             /\ conversations'[p].paymentPending = TRUE
             /\ lastResponse'.notification = "payment_received"]_vars

(* C28: every inbound message received while the state is payment_pending    *)
(* (and that does not escalate) yields a payment_received notification       *)
(* together with the hold reply that verification is in progress.            *)
C28_PaymentPendingRefires ==
    [][\A p \in Phones, in \in PaymentInputs, aiOk \in BOOLEAN :
          (/\ hasContext(conversations, p)
           /\ conversations[p].state = "payment_pending"
           /\ ~TriggersEscalation(in)
           /\ HandleIncomingMessage(p, in, aiOk))
          => /\ lastResponse'.notification = "payment_received"
             /\ lastResponse'.message = "payment_hold"]_vars

----------------------------------------------------------------------------
(* The messages of the reply call.  A message is [role, content]; a content  *)
(* is the sequence of its characters.                                        *)

HistoryWindow == 10

\* the longest history the model starts from
MaxHistory == 3

\* sanitizeString: a lone surrogate becomes U+FFFD
sanitizeString(str) ==
    [i \in DOMAIN str |-> IF str[i] = "lone_surrogate" THEN "U+FFFD" ELSE str[i]]

\* ConversationService.getHistory(phone, limit): the last limit entries
getHistory(hist, p, limit) ==
    LET history == IF p \in DOMAIN hist THEN hist[p] ELSE <<>>
    IN IF Len(history) > limit
       THEN SubSeq(history, Len(history) - limit + 1, Len(history))
       ELSE history

\* the loop of ensureAlternatingRoles: merged so far, msgs still to come
RECURSIVE MergeSameRole(_, _)
MergeSameRole(merged, msgs) ==
    IF msgs = <<>> THEN merged
    ELSE LET msg == Head(msgs)
             n   == Len(merged)
         IN IF n > 0 /\ merged[n].role = msg.role
            THEN MergeSameRole([merged EXCEPT ![n].content = @ \o <<"\n">> \o msg.content],
                               Tail(msgs))
            ELSE MergeSameRole(Append(merged, msg), Tail(msgs))

\* the leading assistant turn is kept
ensureAlternatingRoles_KeepsLeading(msgs) ==
    IF msgs = <<>> THEN msgs ELSE MergeSameRole(<<>>, msgs)

ensureAlternatingRoles(msgs) ==
    IF msgs = <<>> THEN msgs
    ELSE LET merged == MergeSameRole(<<>>, msgs)
         IN IF Len(merged) > 0 /\ merged[1].role # "user" THEN Tail(merged) ELSE merged

NotSystem(m) == m.role # "system"

\* generateAIResponse up to ensureAlternatingRoles: the in-memory history
\* without system entries, then the current message unless it is the last one
PreparedMessages(hist, p, message) ==
    LET kept     == SelectSeq(getHistory(hist, p, HistoryWindow), NotSystem)
        messages == [i \in DOMAIN kept |->
                        [role |-> kept[i].role, content |-> sanitizeString(kept[i].content)]]
        n        == Len(messages)
    IN IF n = 0 \/ messages[n].role # "user" \/ messages[n].content # sanitizeString(message)
       THEN Append(messages, [role |-> "user", content |-> sanitizeString(message)])
       ELSE messages

\* the contents of stored and inbound messages
PromptContents == {<<"a">>, <<"lone_surrogate">>}

PromptEntries ==
    [role : {"user", "assistant", "system"}, content : PromptContents]

\* the histories of at most MaxHistory entries
PromptHistories ==
    UNION {[1..n -> PromptEntries] : n \in 0..MaxHistory}

InitPrompt ==
    /\ build = "current"
    /\ configured = TRUE
    /\ inflight = [r \in Requests |-> IdleRequest]
    /\ now = 0
    /\ conversations = [p \in Phones |-> NewContext(p, 0)]
    /\ messageHistory \in [Phones -> PromptHistories]
    /\ lastResponse = NoResponse
    /\ processedWatiMessages = {}
    /\ startupOver = FALSE
    /\ watiSent = 0
    /\ adminNotified = 0

\* generateAIResponse hands the messages to messages.create
CreateMessages(p, message) ==
    /\ lastResponse' = [op |-> "messages.create", phone |-> p, message |-> message,
                        messages |-> ensureAlternatingRoles(
                                         PreparedMessages(messageHistory, p, message))]
    /\ UNCHANGED <<build, configured, inflight, now, conversations, messageHistory, watiVars>>

PromptNext == \E p \in Phones, message \in PromptContents : CreateMessages(p, message)

SpecPrompt == InitPrompt /\ [][PromptNext]_vars

\* the contents of msgs in order, a line break between two messages
RECURSIVE Joined(_)
Joined(msgs) ==
    IF msgs = <<>> THEN <<>>
    ELSE IF Len(msgs) = 1 THEN msgs[1].content
    ELSE msgs[1].content \o <<"\n">> \o Joined(Tail(msgs))

\* msgs from its first user turn on
RECURSIVE FromFirstUser(_)
FromFirstUser(msgs) ==
    IF msgs = <<>> \/ msgs[1].role = "user" THEN msgs ELSE FromFirstUser(Tail(msgs))

(* C29: the sequence sent to the language model starts with a user turn and  *)
(* strictly alternates user and assistant; it holds, in order and joined by  *)
(* line breaks, the contents of the input from its first user turn on.       *)
C29_AlternatingRoles ==
    lastResponse.op = "messages.create" =>
        LET sent  == lastResponse.messages
            input == PreparedMessages(messageHistory, lastResponse.phone,
                                      lastResponse.message)
        IN /\ Len(sent) > 0
           /\ sent[1].role = "user"
           /\ \A i \in 1..(Len(sent) - 1) :
                 /\ sent[i].role \in {"user", "assistant"}
                 /\ sent[i + 1].role \in {"user", "assistant"}
                 /\ sent[i].role # sent[i + 1].role
           /\ Joined(sent) = Joined(FromFirstUser(input))

\* a history that opens with two assistant turns was merged and trimmed
C29_Witness ==
    /\ lastResponse.op = "messages.create"
    /\ LET input == PreparedMessages(messageHistory, lastResponse.phone,
                                     lastResponse.message)
       IN /\ Len(input) >= 3
          /\ input[1].role = "assistant"
          /\ input[2].role = "assistant"
          /\ Len(lastResponse.messages) < Len(input) - 1

----------------------------------------------------------------------------
(* Escalating messages that also name a device, a MAC address or a content   *)
(* preference.                                                               *)

EscalationInputs ==
    {[text |-> {"hi"}, intent |-> DefaultIntent],
     [text |-> {"refund"}, intent |-> DefaultIntent],
     [text |-> {"fire stick", "refund"}, intent |-> DefaultIntent],
     [text |-> {"worldwide"}, intent |-> Intent("other", "frustrated", NoEntities)],
     [text |-> {"hi"}, intent |-> Intent("human_request", "neutral",
                                         [mac_address |-> "AA:BB:CC:DD:EE:FF"])],
     [text |-> {"fire stick", "aa:bb:cc:dd:ee:ff", "worldwide"}, intent |-> DefaultIntent]}

EscalationNext ==
    \/ Tick
    \/ \E p \in Phones, in \in EscalationInputs, aiOk \in BOOLEAN :
          InboundCount(p) < MaxInbound /\ HandleIncomingMessage(p, in, aiOk)

SpecEscalation == Init /\ [][EscalationNext]_vars

\* the escalation branch of handleIncomingMessage answered the message
EscalationFired == lastResponse.message = "escalation_ack"

(* C30: when escalation fires for a message, the message changes none of     *)
(* device, macAddress, deviceKey, contentPreference, plan and paymentMethod, *)
(* the state is needs_human and not an auto-advanced one, and the reply is   *)
(* the fixed acknowledgement, not a model reply.                             *)
C30_EscalationShortCircuits ==
    [][\A p \in Phones, in \in EscalationInputs, aiOk \in BOOLEAN :
          (HandleIncomingMessage(p, in, aiOk) /\ EscalationFired')
          => /\ lastResponse'.notification = "escalation"
             /\ conversations'[p].state = "needs_human"
             /\ \A f \in CollectedFields \cup {"plan"} :
                   IF hasContext(conversations, p) /\ Has(conversations[p], f)
                   THEN Has(conversations'[p], f)
                        /\ conversations'[p][f] = conversations[p][f]
                   ELSE ~Has(conversations'[p], f)]_vars

(* C31: every inbound message handled by the engine appends exactly one user *)
(* entry to the phone's history, and the reply handleIncomingMessage returns *)
(* appends exactly one assistant entry to it.                                *)
C31_OneEntryPerTurn ==
    [][\A p \in Phones, in \in InboundInputs, aiOk \in BOOLEAN :
          HandleIncomingMessage(p, in, aiOk)
          => LET before == IF p \in DOMAIN messageHistory THEN messageHistory[p] ELSE <<>>
                 after  == messageHistory'[p]
             IN /\ CountRole(after, "user") = CountRole(before, "user") + 1
                /\ CountRole(after, "assistant") = CountRole(before, "assistant") + 1]_vars

(* C32: whenever handleIncomingMessage, activateTrial or activateSubscription *)
(* changes a context's state from s to a different state, the stored          *)
(* previousState afterwards equals s.                                         *)
C32_EngineTracksPreviousState ==
    [][\A p \in Phones :
          (\/ \E in \in InboundInputs, aiOk \in BOOLEAN : HandleIncomingMessage(p, in, aiOk)
           \/ \E c \in CredentialSets : ActivateTrial(p, c)
           \/ \E plan \in ActivatedPlans, c \in CredentialSets :
                 ActivateSubscription(p, plan, c))
          => LET before == getOrCreateContext(conversations, p, now)[p]
                 after  == conversations'[p]
             IN after.state # before.state
                   => PreviousStateOf(after) = before.state]_vars

(* C33: no inbound message and no activation sets the state to churned, and  *)
(* a context in churned stays in churned under every inbound message that    *)
(* does not trigger escalation, whatever fields are collected.               *)
C33_ChurnedIsInert ==
    [][\A p \in Phones :
          /\ (\/ \E in \in InboundInputs, aiOk \in BOOLEAN : HandleIncomingMessage(p, in, aiOk)
              \/ \E c \in CredentialSets : ActivateTrial(p, c)
              \/ \E plan \in ActivatedPlans, c \in CredentialSets :
                    ActivateSubscription(p, plan, c))
             => (conversations'[p].state = "churned"
                    => hasContext(conversations, p) /\ conversations[p].state = "churned")
          /\ \A in \in InboundInputs, aiOk \in BOOLEAN :
                (/\ hasContext(conversations, p)
                 /\ conversations[p].state = "churned"
                 /\ ~TriggersEscalation(in)
                 /\ HandleIncomingMessage(p, in, aiOk))
                => conversations'[p].state = "churned"]_vars

(* C34: in every state reachable through inbound messages, admin activations *)
(* and follow-up sends, a context whose state is needs_human has             *)
(* needsHuman = true.                                                        *)
C34_NeedsHumanFlagged ==
    \A p \in DOMAIN conversations :
       conversations[p].state = "needs_human"
          => Has(conversations[p], "needsHuman") /\ conversations[p].needsHuman = TRUE

\* a context that was sent a follow-up and then escalated
C34_Witness ==
    \E p \in DOMAIN conversations :
       /\ conversations[p].state = "needs_human"
       /\ conversations[p].needsHuman = TRUE
       /\ conversations[p].followUpsSent >= 1

----------------------------------------------------------------------------
(* The sweep worked off: a caller that sends every follow-up the sweep       *)
(* reports as due.  Once it has sent one, the contexts receive no inbound    *)
(* message and no admin action; time goes on.                                *)

\* sends of the caller the model follows
MaxSweepSends == 7

\* the caller has sent a follow-up of the sweep
SweepStarted == lastResponse.op = "sendFollowUp"

\* GET /follow-ups reports p, and POST /follow-ups/send { phone: p, type } follows
\* with the type calculateFollowUpTime gives
SendDueFollowUp(p) ==
    /\ p \in getTrialsNeedingFollowUp(conversations, now)
    /\ conversations[p].followUpsSent < MaxSweepSends
    /\ conversations' =
          updateContext(conversations, p,
                        [followUpsSent |-> conversations[p].followUpsSent + 1,
                         lastFollowUpType |-> calculateFollowUpTime(conversations[p], now).type],
                        now)
    /\ messageHistory' = addMessage(messageHistory, p, AssistantMessage)
    /\ lastResponse' = [op |-> "sendFollowUp", phone |-> p,
                        type |-> calculateFollowUpTime(conversations[p], now).type]
    /\ UNCHANGED <<build, configured, inflight, now, watiVars>>

SweepNext ==
    \/ Elapse
    \/ \E p \in Phones : SendDueFollowUp(p)
    \/ ~SweepStarted /\ \E p \in Phones, c \in CredentialSets : ActivateTrial(p, c)
    \/ ~SweepStarted /\ \E p \in Phones, body \in ReminderBodies : PutContext(p, body)
    \/ ~SweepStarted /\ \E p \in Phones, in \in ReminderInputs :
          InboundCount(p) < MaxStoreInbound /\ HandleIncomingMessage(p, in, TRUE)

\* the caller keeps sending while something is due
SpecSweep ==
    InitCurrent /\ [][SweepNext]_vars /\ WF_vars(\E p \in Phones : SendDueFollowUp(p))

(* C36: when the caller sends every follow-up reported as due, each send     *)
(* adding one to followUpsSent, and no inbound message or admin action       *)
(* intervenes, the sends stop: a follow-up is due in awaiting_mac only       *)
(* while followUpsSent < 2, none is due in trial_expired once                *)
(* followUpsSent >= 5, and in the end nothing is due any more.               *)
C36_FollowUpsStop ==
    /\ [][\A p \in Phones :
             SendDueFollowUp(p)
             => /\ conversations'[p].followUpsSent = conversations[p].followUpsSent + 1
                /\ conversations[p].state = "awaiting_mac"
                      => conversations[p].followUpsSent < 2
                /\ conversations[p].state = "trial_expired"
                      => conversations[p].followUpsSent < 5]_vars
    /\ <>[](SweepStarted => getTrialsNeedingFollowUp(conversations, now) = {})

\* five follow-ups went to an expired trial and nothing is due
C36_Witness ==
    /\ SweepStarted
    /\ \E p \in DOMAIN conversations :
          /\ conversations[p].state = "trial_expired"
          /\ conversations[p].followUpsSent = 5
    /\ getTrialsNeedingFollowUp(conversations, now) = {}

(* C37: for a trial_expired context whose trial expired at least 7 days ago, *)
(* taking the due follow-up and adding one to followUpsSent, from 0 on,      *)
(* gives day1_followup three times, then day3_followup, then day7_final,     *)
(* then nothing.                                                             *)
C37_PostTrialSequence ==
    /\ [][\A p \in Phones :
             (/\ SendDueFollowUp(p)
              /\ conversations[p].state = "trial_expired"
              /\ now - conversations[p].trialExpiresAt >= 7 * DayHours)
             => lastResponse'.type =
                   CASE conversations[p].followUpsSent \in {0, 1, 2} -> "day1_followup"
                     [] conversations[p].followUpsSent = 3 -> "day3_followup"
                     [] conversations[p].followUpsSent = 4 -> "day7_final"
                     [] OTHER -> "none"]_vars
    /\ [](\A p \in DOMAIN conversations :
             (/\ conversations[p].state = "trial_expired"
              /\ Has(conversations[p], "trialExpiresAt")
              /\ now - conversations[p].trialExpiresAt >= 7 * DayHours)
             => /\ conversations[p].followUpsSent <= 4
                   => p \in getTrialsNeedingFollowUp(conversations, now)
                /\ conversations[p].followUpsSent >= 5
                   => calculateFollowUpTime(conversations[p], now) = NoFollowUp)

\* the whole sequence was sent to a trial that expired a week ago: the last
\* send was day7_final and nothing is due
C37_Witness ==
    /\ SweepStarted
    /\ lastResponse.type = "day7_final"
    /\ \E p \in DOMAIN conversations :
          /\ conversations[p].state = "trial_expired"
          /\ now - conversations[p].trialExpiresAt >= 7 * DayHours
          /\ conversations[p].followUpsSent = 5
          /\ conversations[p].lastFollowUpType = "day7_final"
          /\ calculateFollowUpTime(conversations[p], now) = NoFollowUp

(* C38: the dedup key of a delivery is recorded before the startup           *)
(* anti-replay test: a message dropped during the first five seconds is      *)
(* marked as seen without reaching the engine, and while its key is kept a   *)
(* redelivery of it is dropped as a duplicate, again without reaching the    *)
(* engine.                                                                   *)
C38_StartupDropIsRemembered ==
    [][(/\ lastResponse'.op = "watiWebhook"
        /\ Truthy(lastResponse'.payload.waId)
        /\ \E env \in WatiEnvs : WatiWebhook(lastResponse'.payload, env))
       => LET messageId == watiMessageId(lastResponse'.payload)
          IN /\ (~startupOver /\ messageId \notin processedWatiMessages)
                   => /\ lastResponse'.outcome = "startup_ignored"
                      /\ messageId \in processedWatiMessages'
                      /\ UNCHANGED <<conversations, messageHistory, watiSent, adminNotified>>
             /\ messageId \in processedWatiMessages
                   => /\ lastResponse'.outcome = "dedup"
                      /\ UNCHANGED <<conversations, messageHistory, watiSent, adminNotified>>]_vars

\* a greeting dropped during startup came again after startup and was dropped
\* as a duplicate: its sender still has no context
C38_Witness ==
    /\ startupOver
    /\ lastResponse.op = "watiWebhook"
    /\ lastResponse.outcome = "dedup"
    /\ lastResponse.payload.waId = "p1"
    /\ lastResponse.payload.text = {"hi"}
    /\ ~hasContext(conversations, "p1")
    /\ watiSent = 0

----------------------------------------------------------------------------
(* POST /webhooks/wati handlers interleaved at their awaits (current build). *)
(* A handler runs from its start to the call of handleIncomingMessage, and   *)
(* that call to its first await, without giving up control; the deliveries   *)
(* are text messages of customers.                                           *)

ConcurrentPayloads ==
    {WatiPayload("p1", {"hi"}, "m1", "text", Undefined),
     WatiPayload("p1", {"hi"}, Undefined, "text", Undefined),
     WatiPayload("p1", {"fire stick"}, "m2", "text", Undefined),
     WatiPayload("p9", {"hi"}, "m4", "text", Undefined)}

\* where the synchronous start of the handler ends for a text message
watiGate(conv, processed, started, payload) ==
    IF ~Truthy(payload.waId) THEN "no_sender"
    ELSE IF watiMessageId(payload) \in processed THEN "dedup"
    ELSE IF ~started THEN "startup_ignored"
    ELSE IF payload.waId \notin AllowedNumbers THEN "not_allowed"
    ELSE IF ~hasContext(conv, payload.waId) /\ ~StartsWithGreeting(payload.text)
    THEN "no_greeting"
    ELSE "engine"

\* the key of a delivery handed to the engine not recorded at the test
watiSeen_NotBeforeEngine(processed, gate, key) ==
    IF gate \in {"no_sender", "dedup", "engine"} THEN processed ELSE processed \cup {key}

\* processedWatiMessages after the start of the handler
watiSeen(processed, gate, key) ==
    IF gate \in {"no_sender", "dedup"} THEN processed ELSE processed \cup {key}

\* the start of the handler came to gate
WatiAccepted(r, payload, gate) ==
    /\ processedWatiMessages' = watiSeen(processedWatiMessages, gate, watiMessageId(payload))
    /\ IF gate = "engine"
       THEN /\ conversations' =
                  [getOrCreateContext(conversations, payload.waId, now)
                      EXCEPT ![payload.waId] = ObjectAssign(@, [lastMessageAt |-> now])]
            /\ messageHistory' = addMessage(messageHistory, payload.waId, UserMessage)
            /\ inflight' = [inflight EXCEPT ![r] =
                               [pc |-> "detecting", phone |-> payload.waId,
                                text |-> payload.text, intent |-> DefaultIntent,
                                key |-> watiMessageId(payload)]]
       ELSE /\ UNCHANGED <<conversations, messageHistory>>
            /\ inflight' = [inflight EXCEPT ![r] =
                               [pc |-> "dropped", outcome |-> gate,
                                key |-> watiMessageId(payload)]]

\* a delivery arrives: the handler runs to its first await
WatiAccept(r, payload) ==
    /\ inflight[r].pc = "idle"
    /\ WatiAccepted(r, payload,
                    watiGate(conversations, processedWatiMessages, startupOver, payload))
    /\ UNCHANGED <<build, configured, now, lastResponse, startupOver, watiSent, adminNotified>>

\* handleIncomingMessage returned: the reply is sent and the admin notified
WatiRespond(r) ==
    /\ inflight[r].pc = "done"
    /\ inflight' = [inflight EXCEPT ![r].pc = "sent"]
    /\ watiSent' = watiSent + 1
    /\ adminNotified' = IF inflight[r].notification # NoNotification
                        THEN adminNotified + 1 ELSE adminNotified
    /\ UNCHANGED <<build, configured, now, conversations, messageHistory, lastResponse,
                   processedWatiMessages, startupOver>>

ConcurrentWatiNext ==
    \/ \E r \in Requests, payload \in ConcurrentPayloads : WatiAccept(r, payload)
    \/ \E r \in Requests : IntentDetected(r)
    \/ \E r \in Requests : ReplyGenerated(r, TRUE)
    \/ \E r \in Requests : WatiRespond(r)
    \/ StartupWindowEnds

SpecConcurrentWati == InitCurrent /\ [][ConcurrentWatiNext]_vars

\* the delivery handled by r was handed to handleIncomingMessage
ReachedEngine(r) == inflight[r].pc \in {"detecting", "generating", "done", "sent"}

(* C39: of two concurrent deliveries that carry the same message id at most  *)
(* one reaches handleIncomingMessage, in every interleaving of the two       *)
(* handlers.                                                                 *)
C39_DedupIsAtomic ==
    \A r1, r2 \in Requests :
       (r1 # r2 /\ ReachedEngine(r1) /\ ReachedEngine(r2))
          => inflight[r1].key # inflight[r2].key

\* while one delivery is still with the engine, the other one with the same id
\* was dropped as a duplicate
C39_Witness ==
    \E r1, r2 \in Requests :
       /\ inflight[r1].pc \in {"detecting", "generating"}
       /\ inflight[r2].pc = "dropped"
       /\ inflight[r2].outcome = "dedup"
       /\ inflight[r1].key = inflight[r2].key

(* C40: a text message from a phone other than the admin's reaches the       *)
(* conversation engine only if the phone already has a stored context or     *)
(* the text starts with a greeting; a non-greeting text from a phone without *)
(* context creates no context, logs no history entry and gets no reply.      *)
C40_FirstContactGate ==
    [][(/\ lastResponse'.op = "watiWebhook"
        /\ Truthy(lastResponse'.payload.waId)
        /\ lastResponse'.payload.waId # AdminPhone
        /\ lastResponse'.payload.text # {}
        /\ \E env \in WatiEnvs : WatiWebhook(lastResponse'.payload, env))
       => LET phone == lastResponse'.payload.waId
              text  == lastResponse'.payload.text
          IN /\ (\/ messageHistory' # messageHistory
                 \/ lastResponse'.outcome \in {"answered", "image_confirmed"})
                   => hasContext(conversations, phone) \/ StartsWithGreeting(text)
             /\ (~hasContext(conversations, phone) /\ ~StartsWithGreeting(text))
                   => /\ ~hasContext(conversations', phone)
                      /\ UNCHANGED <<conversations, messageHistory, watiSent,
                                     adminNotified>>]_vars

\* after startup a first text that is no greeting was acknowledged and dropped
C40_Witness ==
    /\ startupOver
    /\ lastResponse.op = "watiWebhook"
    /\ lastResponse.outcome = "no_greeting"
    /\ lastResponse.payload.waId = "p1"
    /\ ~hasContext(conversations, "p1")
    /\ "p1" \notin DOMAIN messageHistory
    /\ watiSent = 0

====
